---- MODULE Spec2Model ----
(***************************************************************************)
(* A model of the Archiveopteryx IMAP server session (class IMAP), of its  *)
(* command scheduler and response sequencer, and of the line framing of    *)
(* the inbound SMTP server.                                                *)
(*                                                                         *)
(* Octets are integers (ASCII codes).  A string is a sequence of octets.   *)
(* The object `imap' is one IMAP connection: the fields of IMAPData, the   *)
(* fields it inherits from Connection (read buffer, write buffer, state,   *)
(* syntax error count, peer and self address) and the timers it created.   *)
(***************************************************************************)
EXTENDS Integers, Sequences, FiniteSets, TLC

VARIABLES
    imap,       \* the IMAP connection object (IMAPData + Connection)
    smtp,       \* the inbound SMTP connection object (SMTPData + Connection)
    now,        \* ::time(0), in seconds
    inShutdown, \* EventLoop::global()->inShutdown()
    env,        \* the client's and the store's side: what has been sent so far
    client,     \* the SmtpClient, the DSNs it was given and their recipients
    spool       \* the SpoolManager, its DeliveryAgents and the deliveries tables

vars == <<imap, smtp, now, inShutdown, env, client, spool>>

(***************************************************************************)
(* Bounds of the exploration.                                              *)
(***************************************************************************)
MaxReads == 1          \* Read events of one connection after its opening
Epoch == 100           \* the clock at the start
MaxTime == 1           \* seconds the clock advances
MaxExpunges == 1       \* expunges reported by the mailbox session
MaxImplicit == 1       \* implicit flag-update fetches created by the session
LiteralSizeLimit == 4  \* ImapParser::literalSizeLimit(), scaled down

(***************************************************************************)
(* Strings.                                                                *)
(***************************************************************************)
Min(a, b) == IF a < b THEN a ELSE b

\* EString::operator[]: the octet at index i (from 0), 0 out of range
Range(s) == {s[k] : k \in 1..Len(s)}

At(s, i) == IF i >= 0 /\ i < Len(s) THEN s[i + 1] ELSE 0

\* EString::mid( start, num )
Mid(s, start, num) ==
    IF start >= Len(s) THEN << >>
    ELSE SubSeq(s, start + 1, Min(start + num, Len(s)))

IsDigit(c) == c >= 48 /\ c <= 57

\* EString::number( &ok ): a non-empty run of decimal digits that fits a uint
RECURSIVE DigitsValue(_)
DigitsValue(s) ==
    IF Len(s) = 0 THEN 0
    ELSE 10 * DigitsValue(SubSeq(s, 1, Len(s) - 1)) + (s[Len(s)] - 48)

Number(s) ==
    IF Len(s) = 0 \/ Len(s) > 9 \/ \E k \in 1..Len(s) : ~IsDigit(s[k])
    THEN [ok |-> FALSE, n |-> 0]
    ELSE [ok |-> TRUE, n |-> DigitsValue(s)]

\* EString::lower() of one octet
Lower(c) == IF c >= 65 /\ c <= 90 THEN c + 32 ELSE c

LowerStr(s) == [k \in 1..Len(s) |-> Lower(s[k])]

\* the least element of a non-empty set of integers
Least(S) == CHOOSE x \in S : \A y \in S : x <= y

\* Buffer::removeLine( maxLength ): the first line, without its (CR)LF, if a
\* LF is found among the first maxLength octets (all octets if maxLength = 0)
RemoveLine(buf, maxLength) ==
    LET m == IF maxLength > 0 /\ maxLength < Len(buf) THEN maxLength ELSE Len(buf)
        lfs == {k \in 1..m : buf[k] = 10}
    IN  IF lfs = {} THEN [ok |-> FALSE, line |-> << >>, rest |-> buf]
        ELSE LET k == Least(lfs)
                 e == IF k > 1 /\ buf[k - 1] = 13 THEN k - 2 ELSE k - 1
             IN  [ok |-> TRUE, line |-> SubSeq(buf, 1, e),
                  rest |-> SubSeq(buf, k + 1, Len(buf))]

\* the while loop of endsWithLiteral: step i down over digits, stopping at 0
RECURSIVE ScanDigits(_, _)
ScanDigits(s, i) ==
    IF i > 0 /\ IsDigit(At(s, i)) THEN ScanDigits(s, i - 1) ELSE i

\* endsWithLiteral( s, &n, &plus ).  The indices are uints in the code; an
\* index below 0 here is the wrapped uint there, and both are out of range
\* for operator[], which then returns 0.
EndsWithLiteral(s) ==
    IF Len(s) = 0 \/ s[Len(s)] # 125
    THEN [lit |-> FALSE, n |-> 0, plus |-> FALSE]
    ELSE LET i0 == Len(s) - 2
             plus == At(s, i0) = 43
             i1 == IF plus THEN i0 - 1 ELSE i0
             i2 == ScanDigits(s, i1)
         IN  IF At(s, i2) # 123
             THEN [lit |-> FALSE, n |-> 0, plus |-> plus]
             ELSE LET num == Number(Mid(s, i2 + 1, i1 - i2))
                  IN  [lit |-> num.ok, n |-> num.n, plus |-> plus]

(***************************************************************************)
(* Lines written to the client (Connection::enqueue and the write buffer). *)
(* k is the kind of line, tag the tag of a tagged line and txt its text.   *)
(* For a response that changes MSNs, q records the command queue at the    *)
(* time IMAP::emitResponses wrote it, and during the tags of the UID       *)
(* commands that were in the queue when the change happened.               *)
(***************************************************************************)
OutLine(k, tag, txt) ==
    [k |-> k, tag |-> tag, txt |-> txt, q |-> << >>, during |-> {}]

Enqueue(s, k, tag, txt) == [s EXCEPT !.wbuf = Append(@, OutLine(k, tag, txt))]

(***************************************************************************)
(* IMAP::recordSyntaxError                                                 *)
(***************************************************************************)
RecordSyntaxError(s) ==
    [s EXCEPT !.syntaxErrors = @ + 1, !.lastBadTime = now]

(***************************************************************************)
(* ImapParser and Command::create.                                         *)
(***************************************************************************)
\* the octets ImapParser::tag() and ImapParser::command() accept in a word
IsWordChar(c) ==
    c > 32 /\ c < 127 /\ c \notin {34, 37, 40, 41, 42, 43, 92, 123}

\* the length of the longest prefix of s made of word octets
WordLen(s) ==
    LET stops == {k \in 1..Len(s) : ~IsWordChar(s[k])}
    IN  IF stops = {} THEN Len(s) ELSE Least(stops) - 1

Drop(s, k) == SubSeq(s, k + 1, Len(s))

\* ImapParser::tag(), require( " " ) and ImapParser::command() on one
\* command string: the tag, the lower-cased command name ("uid" takes a
\* second word) and the rest of the string
ParseFirstWords(str) ==
    LET command(tag, w1, r3) ==
            LET uid == w1 = <<117, 105, 100>> /\ Len(r3) > 0 /\ r3[1] = 32
                w2 == LowerStr(SubSeq(Drop(r3, 1), 1, WordLen(Drop(r3, 1))))
            IN  [tagOk |-> TRUE,
                 nameOk |-> Len(w1) > 0 /\ (uid => Len(w2) > 0),
                 tag |-> tag,
                 name |-> IF uid THEN w1 \o <<32>> \o w2 ELSE w1,
                 args |-> IF uid THEN Drop(Drop(r3, 1), Len(w2)) ELSE r3]
        word(tag, r2, n) == command(tag, LowerStr(SubSeq(r2, 1, n)), Drop(r2, n))
        space(tag, r1) ==
            IF Len(r1) > 0 /\ r1[1] = 32
            THEN word(tag, Drop(r1, 1), WordLen(Drop(r1, 1)))
            ELSE [tagOk |-> TRUE, nameOk |-> FALSE, tag |-> tag,
                  name |-> << >>, args |-> r1]
        first(tl) ==
            IF tl = 0
            THEN [tagOk |-> FALSE, nameOk |-> FALSE, tag |-> << >>,
                  name |-> << >>, args |-> str]
            ELSE space(SubSeq(str, 1, tl), Drop(str, tl))
    IN  first(WordLen(str))

\* The command handlers Command::create knows, by name.  group is what the
\* handler's constructor passes to setGroup() (0 when it passes nothing),
\* msn whether parsing its arguments calls setUsesMsn(), db whether its
\* execute() waits for the database, and args whether it takes arguments.
Handlers == {
    [text |-> <<108, 111, 103, 105, 110>>,               name |-> "login",
     group |-> 0, msn |-> FALSE, db |-> TRUE, args |-> TRUE],
    [text |-> <<115, 101, 108, 101, 99, 116>>,           name |-> "select",
     group |-> 0, msn |-> FALSE, db |-> TRUE, args |-> TRUE],
    [text |-> <<110, 111, 111, 112>>,                    name |-> "noop",
     group |-> 0, msn |-> FALSE, db |-> FALSE, args |-> FALSE],
    [text |-> <<105, 100, 108, 101>>,                    name |-> "idle",
     group |-> 0, msn |-> FALSE, db |-> FALSE, args |-> FALSE],
    [text |-> <<108, 111, 103, 111, 117, 116>>,          name |-> "logout",
     group |-> 0, msn |-> FALSE, db |-> FALSE, args |-> FALSE],
    [text |-> <<117, 105, 100, 32, 102, 101, 116, 99, 104>>, name |-> "uid fetch",
     group |-> 1, msn |-> FALSE, db |-> TRUE, args |-> TRUE],
    [text |-> <<102, 101, 116, 99, 104>>,                name |-> "fetch",
     group |-> 2, msn |-> TRUE, db |-> TRUE, args |-> TRUE],
    [text |-> <<115, 116, 111, 114, 101>>,               name |-> "store",
     group |-> 3, msn |-> TRUE, db |-> TRUE, args |-> TRUE],
    [text |-> <<99, 111, 112, 121>>,                     name |-> "copy",
     group |-> 0, msn |-> TRUE, db |-> TRUE, args |-> TRUE] }

HasHandler(text) == \E h \in Handlers : h.text = text

HandlerOf(text) == CHOOSE h \in Handlers : h.text = text

HandlerNamed(name) == CHOOSE h \in Handlers : h.name = name

\* the group of a command whose constructor does not call setGroup()
DefaultGroup == 0

\* a Command object as its constructor leaves it
NewCommand(id, tag, name, group, args) ==
    [id |-> id, tag |-> tag, name |-> name, group |-> group,
     state |-> "Unparsed", usesMsn |-> FALSE, err |-> "none", args |-> args,
     res |-> "wait", peek |-> TRUE, store |-> 0]

\* Command::create( imap, tag, name, parser )
Create(s, tag, text, args) ==
    NewCommand(s.nextId, tag, HandlerOf(text).name, HandlerOf(text).group, args)

\* a faulty variant of AnyExecuting that finds an executing command in
\* every queue
AnyExecuting_always(cmds) == TRUE

\* the loop of addCommand over the queue, looking for an Executing command
AnyExecuting(cmds) == \E k \in 1..Len(cmds) : cmds[k].state = "Executing"

(***************************************************************************)
(* IMAP::addCommand: turns the command string d->str into a Command, or    *)
(* answers it at once.                                                     *)
(***************************************************************************)
\* a faulty variant of Enlist that puts the new command in front of the
\* queue.
Enlist_front(q, c) == <<c>> \o q

\* d->commands.append( cmd )
Enlist(q, c) == Append(q, c)

AddCommand(s0) ==
    LET add(s, p) ==
            LET rcv == [s EXCEPT !.recv = Append(@, p.tag)]
                bye == IF ~AnyExecuting(s.commands)
                       THEN [Enqueue(rcv, "untagged", << >>, "BYE")
                                EXCEPT !.connState = "Closing"]
                       ELSE rcv
                hint == IF HasHandler(LowerStr(p.tag))
                        THEN Enqueue(rcv, "untagged", << >>, "OK Hint")
                        ELSE rcv
            IN  IF ~p.tagOk \/ ~p.nameOk
                THEN RecordSyntaxError(Enqueue(s, "untagged", << >>, "BAD"))
                ELSE IF inShutdown /\ p.name # <<108, 111, 103, 111, 117, 116>>
                THEN Enqueue(bye, "tagged", p.tag, "NO shutdown")
                ELSE IF ~HasHandler(p.name)
                THEN Enqueue(RecordSyntaxError(hint), "tagged", p.tag,
                             "BAD No such command")
                ELSE [rcv EXCEPT
                         !.commands = Enlist(@, Create(rcv, p.tag, p.name, p.args)),
                         !.nextId = @ + 1,
                         !.nextOkTime = now + 117]
        quit(str) == IF str = <<113, 117, 105, 116>>
                     THEN <<97, 114, 110, 116, 32, 108, 111, 103, 111, 117, 116>>
                     ELSE str
        parsed(s) == add([s EXCEPT !.lines = Append(@, s.str)],
                         ParseFirstWords(s.str))
    IN  parsed([s0 EXCEPT !.str = quit(@)])

(***************************************************************************)
(* Commands in the queue.                                                  *)
(***************************************************************************)
HasCmd(s, id) == \E k \in 1..Len(s.commands) : s.commands[k].id = id

Pos(s, id) == CHOOSE k \in 1..Len(s.commands) : s.commands[k].id = id

CmdOf(s, id) == s.commands[Pos(s, id)]

\* List::insert( before, c ): c goes in front of position k
InsertAt(q, k, c) == SubSeq(q, 1, k - 1) \o <<c>> \o SubSeq(q, k, Len(q))

RECURSIVE DropLeadingRetired(_)
DropLeadingRetired(q) ==
    IF Len(q) > 0 /\ q[1].state = "Retired" THEN DropLeadingRetired(Tail(q)) ELSE q

\* IMAP::commands(): the queue, after shifting the leading Retired commands
Commands(s) == [s EXCEPT !.commands = DropLeadingRetired(@)]

\* a faulty variant of UnblockWhileRunning that does not set
\* runCommandsAgain
UnblockWhileRunning_mute(s) ==
    [s EXCEPT !.commands = IF s.state # "NotAuthenticated"
                           THEN DropLeadingRetired(@) ELSE @,
              !.asked = IF s.runningCommands THEN s.iter ELSE @]

\* The part of IMAP::unblockCommands that runs when it is called while
\* runCommands is running: it shifts the leading Retired commands unless the
\* state is NotAuthenticated, and asks for one more pass.  asked records
\* the iteration of runCommands in which it was last called so.
UnblockWhileRunning(s) ==
    [s EXCEPT !.commands = IF s.state # "NotAuthenticated"
                           THEN DropLeadingRetired(@) ELSE @,
              !.runCommandsAgain = IF s.runningCommands THEN TRUE ELSE @,
              !.asked = IF s.runningCommands THEN s.iter ELSE @]

\* Command::setState( st ), which notifies the scheduler of a change
SetCmdState(s, id, st) ==
    IF ~HasCmd(s, id) \/ CmdOf(s, id).state = st THEN s
    ELSE UnblockWhileRunning([s EXCEPT !.commands[Pos(s, id)].state = st])

\* Command::error( e, text ): the first error of a command is kept
SetCmdError(s, id, e) ==
    IF HasCmd(s, id) /\ CmdOf(s, id).err = "none"
    THEN [s EXCEPT !.commands[Pos(s, id)].err = e] ELSE s

\* Command::finish(): the command is Finished and releases the input
Finish(s, id) ==
    LET r == IF s.reader = id THEN [s EXCEPT !.reader = 0] ELSE s
    IN  IF HasCmd(r, id) /\ CmdOf(r, id).state # "Retired"
        THEN SetCmdState(r, id, "Finished") ELSE r

(***************************************************************************)
(* IMAP::setState, IMAP::setSession, IMAP::setUser                         *)
(***************************************************************************)
SetState(s, st) == [s EXCEPT !.state = st]

\* IMAP::respond( new ImapResponse( ... ) )
Respond(s, txt, changesMsn) ==
    [s EXCEPT !.responses = Append(@,
        [text |-> txt, meaningful |-> TRUE, changesMsn |-> changesMsn,
         sent |-> FALSE,
         during |-> IF changesMsn
                    THEN {s.commands[k].tag : k \in
                             {j \in 1..Len(s.commands) :
                                 /\ s.commands[j].group = 1
                                 /\ s.commands[j].tag # << >>
                                 /\ s.commands[j].state # "Retired"}}
                    ELSE {}])]

\* a faulty variant of setSession without the test for no session at all
SetSession_always(s, on) ==
    LET r == IF s.session THEN Respond(s, "OK CLOSED", FALSE) ELSE s
    IN  SetState([r EXCEPT !.session = on],
                 IF on THEN "Selected" ELSE "Authenticated")

\* IMAP::setSession( s ); on says whether s is a session
SetSession(s, on) ==
    IF ~on /\ ~s.session THEN s
    ELSE LET r == IF s.session THEN Respond(s, "OK CLOSED", FALSE) ELSE s
         IN  SetState([r EXCEPT !.session = on],
                      IF on THEN "Selected" ELSE "Authenticated")

\* IMAP::setUser( user, mechanism ); u says whether the user has an inbox
\* The client may be Outlook, which needs the NAT keepalive, if every
\* command in the queue has a tag of four octets without a dot.
SetUser(s, u) ==
    LET possiblyOutlook ==
            \A k \in 1..Len(s.commands) :
                Len(s.commands[k].tag) = 4 /\ 46 \notin Range(s.commands[k].tag)
    IN  SetState([s EXCEPT !.user = u, !.bugNat = @ \/ possiblyOutlook],
                 "Authenticated")

(***************************************************************************)
(* IMAP::maybeParseProxyLeader.  junk is what the octets of the local Hdr  *)
(* that the copy loop did not write happen to hold.                        *)
(***************************************************************************)
V2sig == <<13, 10, 13, 10, 0, 13, 10, 81, 85, 73, 84, 10>>

SizeofHdr == 232

\* the octets k .. k+num-1 (from 0) of msg, of which only the first n are set
HdrField(buf, n, k, num, junk) ==
    [j \in 1..num |-> IF k + j - 1 < n THEN buf[k + j] ELSE junk]

\* a faulty variant of MaybeParseProxyLeader that takes a leader to be there
\* whenever 16 octets are, and removes it
MaybeParseProxyLeader_greedy(s, junk) ==
    IF ~s.maybeProxy THEN [s |-> s, cont |-> TRUE]
    ELSE IF Len(s.rbuf) < 16 THEN [s |-> s, cont |-> FALSE]
    ELSE [s |-> [s EXCEPT !.maybeProxy = FALSE, !.decided = @ + 1,
                          !.rbuf = Drop(@, 16)],
          cont |-> TRUE]

\* Returns the connection and whether parse() may continue.  decided counts
\* the times the question of the leader is settled, leaders the leaders
\* removed and cut their octets.
MaybeParseProxyLeader(s, junk) ==
    IF ~s.maybeProxy THEN [s |-> s, cont |-> TRUE]
    ELSE IF Len(s.rbuf) < 16 THEN [s |-> s, cont |-> FALSE]
    ELSE LET r == s.rbuf
             n == Min(SizeofHdr, Len(r))
             verCmd == r[13]
             fam == r[14]
             size == 16 + (r[15] * 256 + r[16])
             off == [s EXCEPT !.maybeProxy = FALSE, !.decided = @ + 1]
         IN  IF SubSeq(r, 1, 12) # V2sig THEN [s |-> off, cont |-> TRUE]
             ELSE IF (verCmd \div 16) * 16 # 32 THEN [s |-> off, cont |-> TRUE]
             ELSE IF n < size THEN [s |-> s, cont |-> FALSE]
             ELSE LET cut == [off EXCEPT !.rbuf = Drop(r, size),
                                         !.leaders = @ + 1,
                                         !.cut = @ \o SubSeq(r, 1, size)]
                  IN  IF verCmd % 16 = 1 /\ fam = 17
                      THEN [s |-> [cut EXCEPT
                                !.peer = <<4>> \o HdrField(r, n, 16, 4, junk)
                                               \o HdrField(r, n, 24, 2, junk),
                                !.self = <<4>> \o HdrField(r, n, 20, 4, junk)
                                               \o HdrField(r, n, 26, 2, junk)],
                            cont |-> TRUE]
                      ELSE IF verCmd % 16 = 1 /\ fam = 33
                      THEN [s |-> [cut EXCEPT
                                !.peer = <<6>> \o HdrField(r, n, 16, 16, junk)
                                               \o HdrField(r, n, 48, 2, junk),
                                !.self = <<6>> \o HdrField(r, n, 32, 16, junk)
                                               \o HdrField(r, n, 50, 2, junk)],
                            cont |-> TRUE]
                      ELSE [s |-> cut, cont |-> TRUE]

\* the octets at the head of buf that are no longer in rest
Taken(buf, rest) == SubSeq(buf, 1, Len(buf) - Len(rest))

(***************************************************************************)
(* Command::read() of the command that reserved the input.  Only IDLE      *)
(* reserves it here: it reads one line, and finishes on it (DONE ends it,  *)
(* anything else is an error).                                             *)
(***************************************************************************)
ReaderRead(s) ==
    LET read(l, id) ==
            IF ~l.ok THEN s
            ELSE LET got == [s EXCEPT !.rbuf = l.rest,
                                      !.fed = @ \o Taken(s.rbuf, l.rest),
                                      !.diverted = @ \/ s.str # << >>]
                 IN  IF LowerStr(l.line) = <<100, 111, 110, 101>>
                     THEN Finish(got, id)
                     ELSE Finish(SetCmdError(got, id, "bad"), id)
    IN  read(RemoveLine(s.rbuf, 0), s.reader)

(***************************************************************************)
(* IMAP::parse, after the PROXY leader: the while ( true ) loop.           *)
(***************************************************************************)
\* a faulty variant of Continuation that asks for every literal
Continuation_always(s, plus) == Enqueue(s, "cont", << >>, "reading literal")

\* if ( !plus ) enqueue( "+ reading literal\r\n" )
Continuation(s, plus) ==
    IF ~plus THEN Enqueue(s, "cont", << >>, "reading literal") ELSE s

\* the continuation requests written
Conts(s) == Len(SelectSeq(s.wbuf, LAMBDA l : l.k = "cont"))

\* fed are the octets the loop has taken from the read buffer, and lits
\* records each literal found: its size, whether it is a LITERAL+, whether
\* it is read, the continuation requests written for it, and its octets
\* once they are read.
RECURSIVE ParseLoop(_)
ParseLoop(s) ==
    LET line(l, e) ==
            LET take == e.lit /\ e.n <= LiteralSizeLimit
                marked(a) == IF take
                             THEN [a EXCEPT !.readingLiteral = TRUE,
                                            !.literalSize = e.n]
                             ELSE a
                asked(b) == IF take THEN Continuation(b, e.plus) ELSE b
                logged(c) == IF e.lit
                             THEN [c EXCEPT !.lits = Append(@,
                                      [n |-> e.n, plus |-> e.plus,
                                       took |-> c.readingLiteral,
                                       conts |-> Conts(c) - Conts(s),
                                       octets |-> << >>, read |-> FALSE])]
                             ELSE c
                added(g) == IF ~g.readingLiteral
                            THEN [AddCommand(g) EXCEPT !.str = << >>]
                            ELSE g
            IN  ParseLoop(added(logged(asked(marked(
                    [s EXCEPT !.rbuf = l.rest,
                              !.fed = @ \o Taken(s.rbuf, l.rest),
                              !.str = IF e.lit THEN @ \o l.line \o <<13, 10>>
                                      ELSE @ \o l.line])))))
        first(l) == IF ~l.ok THEN s ELSE line(l, EndsWithLiteral(l.line))
        given(r) == IF r.reader # 0 THEN r ELSE ParseLoop(r)
    IN  IF ~s.readingLiteral /\ s.reader = 0
        THEN first(RemoveLine(s.rbuf, 0))
        ELSE IF s.readingLiteral
        THEN IF Len(s.rbuf) < s.literalSize THEN s
             ELSE ParseLoop([s EXCEPT
                      !.str = @ \o SubSeq(s.rbuf, 1, s.literalSize),
                      !.rbuf = Drop(@, s.literalSize),
                      !.fed = @ \o SubSeq(s.rbuf, 1, s.literalSize),
                      !.lits[Len(s.lits)].octets = SubSeq(s.rbuf, 1, s.literalSize),
                      !.lits[Len(s.lits)].read = TRUE,
                      !.readingLiteral = FALSE])
        ELSE given(ReaderRead(s))

\* IMAP::parse
Parse(s, junk) ==
    LET go(p) == IF ~p.cont THEN p.s ELSE ParseLoop(p.s)
    IN  go(MaybeParseProxyLeader(s, junk))

(***************************************************************************)
(* The command handlers: Command::parse and Command::execute.              *)
(***************************************************************************)
AllowedStates(name) ==
    CASE name = "login" -> {"NotAuthenticated"}
      [] name \in {"select", "idle"} -> {"Authenticated", "Selected"}
      [] name \in {"noop", "logout"} ->
             {"NotAuthenticated", "Authenticated", "Selected", "Logout"}
      [] OTHER -> {"Selected"}

\* whether pat occurs in s
Contains(s, pat) ==
    \E k \in 1..(Len(s) - Len(pat) + 1) : SubSeq(s, k, k + Len(pat) - 1) = pat

\* Command::parse() of the handler: the arguments are a space and a
\* non-empty text for a command that takes some, and nothing otherwise.
\* A FETCH of BODY[ is not a peek.
CommandParse(s, id) ==
    LET c == CmdOf(s, id)
        h == HandlerNamed(c.name)
        argsOk == IF h.args
                  THEN Len(c.args) >= 2 /\ c.args[1] = 32 /\ ~Contains(c.args, <<33>>)
                  ELSE c.args = << >>
    IN  IF ~argsOk \/ s.state \notin AllowedStates(c.name)
        THEN SetCmdError(s, id, "bad")
        ELSE [s EXCEPT
                 !.commands[Pos(s, id)].usesMsn = h.msn,
                 !.commands[Pos(s, id)].peek =
                     ~(c.name \in {"fetch", "uid fetch"}
                       /\ Contains(LowerStr(c.args), <<98, 111, 100, 121, 91>>))]

\* a command that waits for the database finishes when the result is there
FinishOnResult(s, id) ==
    LET c == CmdOf(s, id)
    IN  IF c.res = "wait" THEN s
        ELSE IF c.res = "no" THEN Finish(SetCmdError(s, id, "no"), id)
        ELSE Finish(s, id)

\* Fetch::execute: a FETCH that is not a peek first inserts a Store of
\* \Seen in front of itself, already Executing, and waits for it
FetchExecute(s, id) ==
    LET c == CmdOf(s, id)
    IN  IF c.state # "Executing" THEN s
        ELSE IF ~c.peek /\ c.store = 0
        THEN LET st == [NewCommand(s.nextId, << >>, "store", DefaultGroup, << >>)
                           EXCEPT !.state = "Executing"]
                 k == Pos(s, id)
             IN  [s EXCEPT !.commands = InsertAt(
                                [@ EXCEPT ![k].store = s.nextId], k, st),
                           !.nextId = @ + 1]
        ELSE IF c.store # 0 /\ HasCmd(s, c.store)
                /\ CmdOf(s, c.store).state = "Executing"
        THEN s
        ELSE FinishOnResult(s, id)

\* Command::execute()
Execute(s, id) ==
    LET c == CmdOf(s, id)
    IN  CASE c.name = "noop" -> Finish(s, id)
          [] c.name = "idle" -> [s EXCEPT !.reader = id]
          [] c.name = "logout" ->
                 Finish(Enqueue(SetState(SetSession(s, FALSE), "Logout"),
                                "untagged", << >>, "BYE"), id)
          [] c.name = "login" ->
                 IF c.res \in {"ok", "noinbox"}
                 THEN Finish(SetUser(s, IF c.res = "ok" THEN "inbox" ELSE "noinbox"), id)
                 ELSE FinishOnResult(s, id)
          [] c.name = "select" ->
                 IF c.res = "ok" THEN Finish(SetSession(s, TRUE), id)
                 ELSE FinishOnResult(s, id)
          [] c.name \in {"fetch", "uid fetch"} -> FetchExecute(s, id)
          [] OTHER -> FinishOnResult(s, id)

\* IMAP::run( c )
Run(s, id) ==
    IF ~HasCmd(s, id) \/ CmdOf(s, id).state # "Executing" THEN s
    ELSE IF CmdOf(s, id).err = "none" THEN Execute(s, id) ELSE Finish(s, id)

(***************************************************************************)
(* IMAP::emitResponses                                                     *)
(***************************************************************************)
\* a faulty variant of ScanCommands that looks at the states of the
\* commands only, not at their groups and their use of MSNs
RECURSIVE ScanCommands_states(_, _, _)
ScanCommands_states(q, k, can) ==
    IF k > Len(q) THEN can
    ELSE IF q[k].state = "Executing" /\ q[k].name = "idle"
    THEN ScanCommands_states(q, k + 1, TRUE)
    ELSE IF q[k].state = "Executing" THEN FALSE
    ELSE IF q[k].state = "Finished" /\ q[k].tag # << >>
    THEN ScanCommands_states(q, k + 1, TRUE)
    ELSE ScanCommands_states(q, k + 1, can)

\* The loop that decides whether expunges are permitted: it stops at the
\* first command that forbids them.
RECURSIVE ScanCommands(_, _, _)
ScanCommands(q, k, can) ==
    IF k > Len(q) THEN can
    ELSE IF q[k].state = "Executing" /\ q[k].name = "idle"
    THEN ScanCommands(q, k + 1, TRUE)
    ELSE IF q[k].state = "Executing" THEN FALSE
    ELSE IF q[k].group = 2 \/ q[k].group = 3 THEN FALSE
    ELSE IF q[k].usesMsn /\ q[k].name # "copy" THEN FALSE
    ELSE IF q[k].state = "Finished" /\ q[k].tag # << >>
    THEN ScanCommands(q, k + 1, TRUE)
    ELSE ScanCommands(q, k + 1, can)

\* a faulty variant of CanSendExpunge that permits expunges at any time
CanSendExpunge_always(q) == TRUE

\* "first, see if expunges are permitted"
CanSendExpunge(q) == ScanCommands(q, 1, FALSE)

\* the loop over d->responses
RECURSIVE WriteResponses(_, _, _)
WriteResponses(s, rs, can) ==
    IF rs = << >> THEN [s EXCEPT !.responses = << >>]
    ELSE LET r == Head(rs)
             rest == WriteResponses(s, Tail(rs), can)
         IN  IF ~r.meaningful THEN rest
             ELSE IF ~r.sent /\ (can \/ ~r.changesMsn)
             THEN LET w == WriteResponses(
                               [s EXCEPT !.wbuf = Append(@,
                                   [k |-> "untagged", tag |-> << >>, txt |-> r.text,
                                    q |-> IF r.changesMsn THEN s.commands ELSE << >>,
                                    during |-> r.during])],
                               Tail(rs), can)
                  IN  w
             ELSE LET w == WriteResponses(s, Tail(rs), can)
                  IN  [w EXCEPT !.responses = <<r>> \o @]

EmitResponses(s0) ==
    LET s == Commands(s0)
    IN  IF s.bugNoUnsolicited /\ s.commands = << >> THEN s
        ELSE WriteResponses(s, s.responses, CanSendExpunge(s.commands))

\* Command::emitResponses(): the untagged responses that may be sent, then
\* the tagged line, and the command is Retired.  Sending BAD counts as a
\* syntax error.
CmdEmitResponses(s, id) ==
    LET c == CmdOf(s, id)
        tagged(b) == IF c.tag = << >> THEN b
                     ELSE Enqueue(b, "tagged", c.tag,
                                  CASE c.err = "bad" -> "BAD"
                                    [] c.err = "no" -> "NO"
                                    [] OTHER -> "OK")
        counted(a) == IF c.err = "bad" THEN RecordSyntaxError(a) ELSE a
    IN  SetCmdState(tagged(counted(EmitResponses(s))), id, "Retired")

(***************************************************************************)
(* IMAP::runCommands                                                       *)
(***************************************************************************)
Ids(q) == [k \in 1..Len(q) |-> q[k].id]

\* "run all currently executing commands once"
RECURSIVE ExecuteAll(_, _)
ExecuteAll(s, ids) ==
    IF ids = << >> THEN s
    ELSE IF HasCmd(s, Head(ids)) /\ CmdOf(s, Head(ids)).state = "Executing"
    THEN ExecuteAll(Run([s EXCEPT !.ran = Append(@, Head(ids))], Head(ids)),
                    Tail(ids))
    ELSE ExecuteAll(s, Tail(ids))

\* "emit responses for zero or more finished commands and retire them"
RECURSIVE EmitFinished(_, _)
EmitFinished(s, ids) ==
    IF ids = << >> \/ ~HasCmd(s, Head(ids))
       \/ CmdOf(s, Head(ids)).state # "Finished"
    THEN s
    ELSE LET r == IF s.reader = Head(ids) THEN [s EXCEPT !.reader = 0] ELSE s
         IN  EmitFinished(CmdEmitResponses(r, Head(ids)), Tail(ids))

\* a faulty variant of DelayNeeded without the bound of 16 seconds
DelayNeeded_unbounded(s) ==
    LET d == s.lastBadTime + s.syntaxErrors - now
        e == IF d < 0 THEN 0 ELSE d
    IN  IF s.user = "noinbox" /\ e < 4 THEN 4 ELSE e

\* the seconds to wait before new commands are started
DelayNeeded(s) ==
    LET capped == IF s.syntaxErrors > 16 THEN 16 ELSE s.syntaxErrors
        d == s.lastBadTime + capped - now
        e == IF d < 0 THEN 0 ELSE d
    IN  IF s.user = "noinbox" /\ e < 4 THEN 4 ELSE e

\* parse a command if it is Unparsed, then make it Finished if it has an
\* error, and Executing if it was Unparsed or Blocked
Promote(s, id) ==
    LET go(a) == IF CmdOf(a, id).err # "none" THEN SetCmdState(a, id, "Finished")
                 ELSE IF CmdOf(a, id).state \in {"Unparsed", "Blocked"}
                 THEN SetCmdState(a, id, "Executing")
                 ELSE a
    IN  go(IF CmdOf(s, id).state = "Unparsed" THEN CommandParse(s, id) ELSE s)

\* "if we have a leading command, we can parse and execute followers in
\* the same group": the loop over the commands behind first
RECURSIVE Followers(_, _, _)
Followers(s, first, ids) ==
    LET on(c, a) == IF CmdOf(a, c).group # CmdOf(a, first).group
                       /\ CmdOf(a, c).state = "Executing"
                    THEN SetCmdState(a, c, "Blocked")
                    ELSE Followers(a, first, Tail(ids))
    IN  IF ids = << >> \/ ~HasCmd(s, Head(ids))
           \/ CmdOf(s, first).state # CmdOf(s, Head(ids)).state
        THEN s
        ELSE on(Head(ids), Promote(s, Head(ids)))

\* "we may be able to start new commands".  A leading Retired command is
\* not promoted, but it stays first, and the iterator stays on it.
StartCommands(s) ==
    LET led(first, a) ==
            IF CmdOf(a, first).state = "Executing" /\ CmdOf(a, first).group # 0
            THEN Followers(a, first, Tail(Ids(s.commands)))
            ELSE a
    IN  IF s.commands = << >> THEN s
        ELSE IF s.commands[1].state # "Retired"
        THEN led(s.commands[1].id, Promote(s, s.commands[1].id))
        ELSE IF s.commands[1].group # 0
        THEN Followers(s, s.commands[1].id, Ids(s.commands))
        ELSE s

\* One iteration of the while loop.  ret says that the iteration returned
\* from runCommands after arming the BadBouncer timer.  The iteration is
\* recorded in pass: the queue at its start, before the commands are
\* started and after, the clock and the syntax errors on which the delay
\* is decided, and the time of the timer.
Pass(s) ==
    LET started(log, c) ==
            [s |-> [c EXCEPT !.pass = [log EXCEPT !.after = c.commands]],
             ret |-> FALSE]
        decide(b, delay) ==
            LET log == [start |-> s.commands, before |-> b.commands,
                        after |-> b.commands, at |-> now,
                        errors |-> b.syntaxErrors, last |-> b.lastBadTime,
                        noinbox |-> b.user = "noinbox", held |-> FALSE,
                        timer |-> 0]
            IN  IF delay > 0 /\ b.commands # << >>
                THEN [s |-> [b EXCEPT !.timers = @ \cup {now + delay},
                                      !.runningCommands = FALSE,
                                      !.pass = [log EXCEPT !.held = TRUE,
                                                           !.timer = now + delay]],
                      ret |-> TRUE]
                ELSE started(log, StartCommands(b))
        emitted(b) == decide(b, DelayNeeded(b))
        executed(a) == emitted(EmitFinished(a, Ids(a.commands)))
    IN  executed(ExecuteAll([s EXCEPT !.ran = << >>], Ids(s.commands)))

RECURSIVE RunLoop(_)
RunLoop(s) ==
    LET again(p) == IF p.ret THEN p ELSE RunLoop(p.s)
    IN  IF ~s.runCommandsAgain THEN [s |-> s, ret |-> FALSE]
        ELSE again(Pass([s EXCEPT !.runCommandsAgain = FALSE, !.iter = @ + 1]))

\* IMAP::restartNatDefeater
RestartNatDefeater(s) ==
    IF ~s.bugNat \/ s.state \in {"NotAuthenticated", "Logout"} THEN s
    ELSE IF s.nextOkTime >= now + 4 /\ s.nextOkTime < now + 6 THEN s
    ELSE [s EXCEPT !.nextOkTime = now + 4, !.natTimers = @ \cup {now + 6},
                   !.restarted = TRUE]

\* IMAP::idle
Idle(s) ==
    \A k \in 1..Len(s.commands) :
        \/ s.commands[k].state = "Retired"
        \/ s.commands[k].state = "Executing" /\ s.commands[k].name = "idle"

\* a faulty variant of DefeatNat that does not look at nextOkTime
DefeatNat_eager(s) ==
    IF ~Idle(s) \/ s.connState # "Connected"
       \/ s.state \in {"NotAuthenticated", "Logout"}
    THEN s
    ELSE [Enqueue(s, "untagged", << >>, "OK NAT keepalive")
             EXCEPT !.nextOkTime = now + 117, !.natTimers = @ \cup {now + 117},
                    !.okAt = now, !.restarted = FALSE]

\* IMAP::defeatNat.  okAt records the time of the last keepalive, and
\* restarted that restartNatDefeater has set up a timer since.
DefeatNat(s) ==
    IF ~Idle(s) \/ s.connState # "Connected"
       \/ s.state \in {"NotAuthenticated", "Logout"}
       \/ now < s.nextOkTime
    THEN s
    ELSE [Enqueue(s, "untagged", << >>, "OK NAT keepalive")
             EXCEPT !.nextOkTime = now + 117, !.natTimers = @ \cup {now + 117},
                    !.okAt = now, !.restarted = FALSE]

\* IMAP::runCommands
RunCommands(s) ==
    LET cleaned(a) ==
            IF a.commands # << >> THEN a
            ELSE IF inShutdown /\ a.connState = "Connected"
            THEN [a EXCEPT !.connState = "Closing"]
            ELSE RestartNatDefeater(a)
        done(p) ==
            IF p.ret THEN p.s
            ELSE cleaned([p.s EXCEPT
                     !.runningCommands = FALSE,
                     !.commands = SelectSeq(@, LAMBDA c : c.state # "Retired")])
    IN  done(RunLoop([s EXCEPT !.runningCommands = TRUE,
                               !.runCommandsAgain = TRUE,
                               !.iter = 0, !.asked = 0]))

\* IMAP::unblockCommands, called from outside runCommands
UnblockCommands(s) ==
    RunCommands([s EXCEPT !.commands = IF s.state # "NotAuthenticated"
                                       THEN DropLeadingRetired(@) ELSE @])

(***************************************************************************)
(* Fetch::Fetch( f, a, set, limit, imap ): the implicit fetch the mailbox  *)
(* session creates for flag updates.  It goes in front of the first tagged *)
(* command if that is Finished or Executing, else to the end of the queue, *)
(* and it is Executing at once.                                            *)
(***************************************************************************)
RECURSIVE SkipRetired(_, _)
SkipRetired(q, k) ==
    IF k <= Len(q) /\ q[k].state = "Retired" THEN SkipRetired(q, k + 1) ELSE k

RECURSIVE SkipUntagged(_, _)
SkipUntagged(q, k) ==
    IF k <= Len(q) /\ q[k].tag = << >> THEN SkipUntagged(q, k + 1) ELSE k

ImplicitFetchCtor(s0) ==
    LET s == Commands(s0)
        q == s.commands
        k == SkipUntagged(q, SkipRetired(q, 1))
        f == NewCommand(s.nextId, << >>, "uid fetch", DefaultGroup, << >>)
        t == [s EXCEPT !.nextId = @ + 1]
    IN  IF k <= Len(q) /\ q[k].state \in {"Finished", "Executing"}
        THEN [t EXCEPT !.commands = InsertAt(q, k,
                 [f EXCEPT !.state = "Executing",
                           !.group = IF q[k].group \in {1, 2}
                                     THEN q[k].group ELSE f.group])]
        ELSE [t EXCEPT !.commands = Append(q, [f EXCEPT !.state = "Executing"])]

(***************************************************************************)
(* IMAP::react                                                             *)
(***************************************************************************)
\* react( Read )
ReactRead(s, junk) ==
    LET settle(d) == [d EXCEPT !.bytesArrived = @ - Len(d.rbuf)]
        given(x) == IF x.reader # 0 THEN ReaderRead(x) ELSE x
        over(b) == IF b.bytesArrived > 32768 /\ b.state = "NotAuthenticated"
                   THEN given([Enqueue(b, "untagged", << >>, "BYE")
                                   EXCEPT !.connState = "Closing"])
                   ELSE b
    IN  settle(RunCommands(over(Parse(
            [s EXCEPT !.bytesArrived = @ + Len(s.rbuf)], junk))))

\* a faulty variant of MarkClosed that marks every command that is not
\* Retired
RECURSIVE MarkClosed_finished(_, _)
MarkClosed_finished(s, ids) ==
    IF ids = << >> THEN s
    ELSE MarkClosed_finished(
             IF CmdOf(s, Head(ids)).state # "Retired"
             THEN SetCmdError(s, Head(ids), "no") ELSE s,
             Tail(ids))

\* the loop of react( Close ): "Unexpected close by client" for the
\* commands that are Unparsed, Blocked or Executing
RECURSIVE MarkClosed(_, _)
MarkClosed(s, ids) ==
    IF ids = << >> THEN s
    ELSE MarkClosed(
             IF CmdOf(s, Head(ids)).state \in {"Unparsed", "Blocked", "Executing"}
             THEN SetCmdError(s, Head(ids), "no") ELSE s,
             Tail(ids))

\* react( Error ) and react( Close ).  close records the queue as the event
\* found it and as the loop left it.
ReactClose(s) ==
    LET settle(d) == [d EXCEPT !.bytesArrived = @ - Len(d.rbuf)]
        marked(b) == [MarkClosed(b, Ids(b.commands)) EXCEPT
                         !.close = [n |-> @.n + 1, before |-> s.commands,
                                    after |-> << >>, session |-> s.session]]
        logged(c) == [c EXCEPT !.close.after = c.commands]
        parted(a) == IF a.session THEN SetSession(a, FALSE) ELSE a
    IN  settle(RunCommands(logged(marked(parted(
            [s EXCEPT !.bytesArrived = @ + Len(s.rbuf)])))))

\* react( Shutdown )
ReactShutdown(s) ==
    LET a == Enqueue(s, "untagged", << >>, "BYE")
        b == IF a.session /\ a.commands = << >> THEN SetSession(a, FALSE) ELSE a
    IN  RunCommands(b)

\* react( Timeout )
ReactTimeout(s) ==
    LET a == IF s.state # "Logout" THEN Enqueue(s, "untagged", << >>, "BYE") ELSE s
        b == [a EXCEPT !.connState = "Closing"]
        c == IF b.reader # 0 THEN ReaderRead(b) ELSE b
    IN  RunCommands(SetSession(c, FALSE))

(***************************************************************************)
(* The initial state: IMAPData::IMAPData and IMAP::IMAP.                   *)
(***************************************************************************)
\* FetchData: the data of one Fetch command, with what it sees of its
\* session (messages, sexpunged, readOnly) and of the message cache (has:
\* the data each Message object holds).  cmd is the state of the command.
FetchData ==
    [state |-> 0, peek |-> TRUE, uid |-> FALSE, group |-> 2,
     set |-> {}, expunged |-> {}, changedSince |-> FALSE, those |-> "none",
     rows |-> {}, store |-> "none", committed |-> 0,
     needsHeader |-> FALSE, needsAddresses |-> FALSE, needsBody |-> FALSE,
     needsPartNumbers |-> FALSE, flags |-> FALSE, annotation |-> FALSE,
     rfc822size |-> FALSE, internaldate |-> FALSE, modseq |-> FALSE,
     requested |-> << >>, available |-> << >>,
     timer |-> FALSE, responseRate |-> 0,
     cmd |-> "Unparsed", error |-> FALSE,
     messages |-> {}, sexpunged |-> {}, readOnly |-> FALSE,
     has |-> << >>, stale |-> {}, fetching |-> {},
     \* bookkeeping of the model
     early |-> 0, earlyRequested |-> 0, earlyAvailable |-> 0,
     wanted |-> {}, out |-> << >>]

ImapInit ==
    [maybeProxy |-> TRUE, state |-> "NotAuthenticated", reader |-> 0,
     str |-> << >>, runningCommands |-> FALSE, runCommandsAgain |-> FALSE,
     readingLiteral |-> FALSE, literalSize |-> 0,
     commands |-> << >>, responses |-> << >>, bytesArrived |-> 0,
     bugNoUnsolicited |-> FALSE, bugNat |-> FALSE,
     lastBadTime |-> 0, nextOkTime |-> 0,
     \* Connection
     connState |-> "Connected", rbuf |-> << >>,
     wbuf |-> <<OutLine("untagged", << >>, "OK banner")>>,
     syntaxErrors |-> 0, session |-> FALSE, user |-> "none",
     peer |-> << >>, self |-> << >>,
     \* Timer objects, by the time at which they fire
     timers |-> {}, natTimers |-> {},
     \* bookkeeping of the model
     nextId |-> 1, recv |-> << >>, lines |-> << >>, leaders |-> 0,
     iter |-> 0, asked |-> 0, okAt |-> 0, restarted |-> FALSE,
     ran |-> << >>, input |-> << >>, fed |-> << >>, cut |-> << >>,
     decided |-> 0, diverted |-> FALSE, lits |-> << >>,
     close |-> [n |-> 0, before |-> << >>, after |-> << >>, session |-> FALSE],
     pass |-> [start |-> << >>, before |-> << >>, after |-> << >>, at |-> 0,
               errors |-> 0, last |-> 0, noinbox |-> FALSE, held |-> FALSE,
               timer |-> 0],
     fetch |-> FetchData]

(***************************************************************************)
(* The SMTP server: SMTP::react( Read ), which parses the input into       *)
(* commands and executes them.  The model starts after the check for a     *)
(* PROXY leader, and its commands are done at their first notify() and     *)
(* answer with one line.                                                   *)
(***************************************************************************)
LineLimit == 4096

\* a faulty variant of SmtpParseCommand that does not limit the line
SmtpParseCommand_nolimit(s) ==
    LET l == RemoveLine(s.rbuf, 0)
    IN  IF ~l.ok THEN s
        ELSE [s EXCEPT !.rbuf = l.rest,
                       !.commands = Append(@, [line |-> l.line, done |-> FALSE]),
                       !.created = Append(@, l.line)]

\* SMTP::parseCommand.  created records the lines commands were made of.
SmtpParseCommand(s) ==
    LET l == RemoveLine(s.rbuf, LineLimit)
    IN  IF ~l.ok /\ Len(s.rbuf) > LineLimit
        THEN [s EXCEPT !.wbuf = Append(@, "500 Line too long"),
                       !.connState = "Closing"]
        ELSE IF ~l.ok THEN s
        ELSE [s EXCEPT !.rbuf = l.rest,
                       !.commands = Append(@, [line |-> l.line, done |-> FALSE]),
                       !.created = Append(@, l.line)]

\* SMTP::parse, with inputState() = Command
RECURSIVE SmtpParse(_)
SmtpParse(s) ==
    IF s.connState # "Connected" THEN s
    ELSE LET a == SmtpParseCommand(s)
         IN  IF Len(a.rbuf) >= Len(s.rbuf) THEN a ELSE SmtpParse(a)

\* SMTP::execute: every command is notified, and the leading commands that
\* are done emit their responses and leave the list
SmtpExecute(s) ==
    [s EXCEPT !.commands = << >>,
              !.wbuf = @ \o [k \in 1..Len(s.commands) |-> "250"]]

\* SMTP::react( Read )
SmtpReactRead(s) == SmtpExecute(SmtpParse(s))

(***************************************************************************)
(* The transaction variables of the SMTP server.  An id is the time of the *)
(* transaction, the process id and the id of the log; the process and the  *)
(* log are the same during a connection.                                   *)
(***************************************************************************)
\* SMTP::setHeloName
SmtpSetHeloName(s, name) == [s EXCEPT !.heloName = name]

\* SMTP::authenticated( user ), with the addresses of the user known at once
SmtpAuthenticated(s, user) ==
    IF user = "none" THEN [s EXCEPT !.user = user]
    ELSE [s EXCEPT !.user = user, !.permittedAddresses = <<user>>]

\* SMTP::setInputState
SmtpSetInputState(s, i) == [s EXCEPT !.inputState = i]

\* SMTP::addRecipient
SmtpAddRecipient(s, r) == [s EXCEPT !.recipients = Append(@, r)]

\* SMTP::setBody
SmtpSetBody(s, b) == [s EXCEPT !.body = b]

\* SMTP::setTransactionId
SmtpSetTransactionId(s, id) == [s EXCEPT !.id = id]

\* SMTP::transactionTime(): the time of the first call, 0 being unset
SmtpTransactionTime(s) == IF s.now # 0 THEN s ELSE [s EXCEPT !.now = now]

\* SMTP::transactionId(); ret is what the call returned
SmtpTransactionId(s) ==
    LET assign(a) == [a EXCEPT !.id = <<a.now, "pid", "log">>,
                               !.ret = <<a.now, "pid", "log">>,
                               !.assigned = @ + 1]
    IN  IF s.id # << >> THEN [s EXCEPT !.ret = s.id]
        ELSE assign(SmtpTransactionTime(s))

\* a faulty variant of SmtpReset that forgets the HELO name as well
SmtpReset_helo(s) ==
    [s EXCEPT !.sieve = FALSE, !.recipients = << >>, !.body = << >>,
              !.id = << >>, !.now = 0, !.heloName = << >>]

\* SMTP::reset
SmtpReset(s) ==
    [s EXCEPT !.sieve = FALSE, !.recipients = << >>, !.body = << >>,
              !.id = << >>, !.now = 0]

SmtpInit == [connState |-> "Connected", rbuf |-> << >>, wbuf |-> <<"220">>,
             commands |-> << >>, created |-> << >>,
             \* SMTPData
             inputState |-> "Command", dialect |-> "Smtp", sieve |-> FALSE,
             heloName |-> << >>, user |-> "none",
             permittedAddresses |-> << >>, recipients |-> << >>,
             body |-> << >>, now |-> 0, id |-> << >>,
             \* bookkeeping of the model
             ret |-> << >>, assigned |-> 0, calls |-> 0, resets |-> 0]

EnvInit == [reads |-> 0, tags |-> 0, expunges |-> 0, implicit |-> 0,
            shutdownSent |-> FALSE, quit |-> FALSE, burst |-> FALSE,
            cur |-> << >>, whole |-> << >>, intended |-> << >>, leaders |-> 0,
            smtpReads |-> 0, memoryLimit |-> 0, advertised |-> 0,
            await |-> << >>]

(***************************************************************************)
(* SmtpClient: the connection to the smarthost.  A DSN is a list of        *)
(* recipients; the client changes the recipients of the DSN it was given   *)
(* in place.  first is the action a recipient had when its DSN was built,  *)
(* offered counts the RCPT TO commands sent for it; data are the DSNs for  *)
(* which DATA was sent and walked those whose recipients the client has    *)
(* gone through.                                                           *)
(***************************************************************************)
\* Recipient::setAction on a new Recipient
NewRecipient(action, status) ==
    [action |-> action, status |-> status, first |-> action, offered |-> 0]

\* the statuses SmtpClient passes to finish()
Status450 == <<52, 46, 53, 46, 48>>     \* "4.5.0"
Status441 == <<52, 46, 52, 46, 49>>     \* "4.4.1"
Status442 == <<52, 46, 52, 46, 50>>     \* "4.4.2"

\* EString::find( c ): the index of the first c in s, -1 if there is none
Find(s, c) ==
    LET at == {k \in 1..Len(s) : s[k] = c}
    IN  IF at = {} THEN 0 - 1 ELSE Least(at) - 1

\* the switch of enhancedStatus: the default status of a reply code
StatusTable(response, s) ==
    LET x(a, b) == <<48 + a, 46, 48 + b, 46, 48>>
    IN  IF response \in {211, 214, 220, 221, 252, 354} THEN x(2, 0)
        ELSE IF response = 250
             THEN IF s \in {"MailFrom", "RcptTo"} THEN x(2, 1) ELSE x(2, 0)
        ELSE IF response = 251 THEN x(2, 1)
        ELSE IF response = 421 THEN x(4, 3)
        ELSE IF response \in {450, 451, 452} THEN x(4, 2)
        ELSE IF response \in {500, 501, 502, 503, 504} THEN x(4, 3)
        ELSE IF response \in {550, 551, 553} THEN x(5, 2)
        ELSE IF response = 552 THEN x(5, 3)
        ELSE IF response = 554 THEN x(5, 0)
        ELSE x(response \div 100, 0)

\* enhancedStatus( l, e, s )
EnhancedStatus(l, e, s) ==
    LET i == Find(Drop(l, 4), 32)
        num == Number(Mid(l, 0, 3))
    IN  IF e /\ (At(l, 4) >= 50 \/ At(l, 4) <= 53) /\ At(l, 5) = 46 /\ i > 5
        THEN Mid(l, 4, i - 4)
        ELSE IF ~num.ok \/ num.n < 200 \/ num.n >= 600
             THEN <<52, 46, 48, 46, 48>>
             ELSE StatusTable(num.n, s)

\* List<Recipient>::Iterator: the recipient i of DSN d; null at 0 and past
\* the end
NoRcpt == [d |-> 0, i |-> 0]

IsRcpt(c, it) == it.d # 0 /\ it.i >= 1 /\ it.i <= Len(c.dsns[it.d])

\* Recipient::setAction through an iterator
SetAction(c, it, action, status) ==
    [c EXCEPT !.dsns[it.d][it.i].action = action,
              !.dsns[it.d][it.i].status = status]

\* the loops of handleFailure and finish without the test for Unknown
RECURSIVE SetUnknown_every(_, _, _, _)
SetUnknown_every(c, i, action, status) ==
    IF c.dsn = 0 \/ i > Len(c.dsns[c.dsn]) THEN c
    ELSE SetUnknown_every(SetAction(c, [d |-> c.dsn, i |-> i], action, status),
                          i + 1, action, status)

\* the loops of handleFailure and finish: every recipient of the current
\* DSN whose action is Unknown gets the action and the status
RECURSIVE SetUnknown(_, _, _, _)
SetUnknown(c, i, action, status) ==
    IF c.dsn = 0 \/ i > Len(c.dsns[c.dsn]) THEN c
    ELSE SetUnknown(IF c.dsns[c.dsn][i].action = "Unknown"
                    THEN SetAction(c, [d |-> c.dsn, i |-> i], action, status)
                    ELSE c, i + 1, action, status)

\* SmtpClient::finish without the notification of the owner
ClientFinish_silent(c, status) ==
    LET done == SetUnknown(c, 1, "Delayed", status)
    IN  [done EXCEPT !.dsn = 0, !.owner = FALSE]

RECURSIVE ClientSendCommand(_)

\* SmtpClient::ready
ClientReady(c) ==
    c.dsn = 0 /\ c.state \in {"Invalid", "Connected", "Hello", "Rset"}

\* SmtpClient::send: dsn is the list of the recipients of the new DSN
ClientSend(c, dsn) ==
    IF ~ClientReady(c) THEN c
    ELSE LET given == [c EXCEPT !.dsns = Append(@, dsn),
                                !.dsn = Len(c.dsns) + 1,
                                !.owner = TRUE, !.sentMail = FALSE,
                                !.closeTimer = FALSE]
         IN  ClientSendCommand(IF c.state = "Rset"
                               THEN [given EXCEPT !.state = "Hello"]
                               ELSE given)

\* The owner is notified and runs at once.  An owner that has another DSN
\* (eager) calls send() for it; asked counts these calls.
OwnerNotified(c) ==
    IF c.eager = << >> THEN c
    ELSE ClientSend([c EXCEPT !.asked = @ + 1], c.eager)

\* SmtpClient::finish: the owner is notified before the DSN is forgotten
ClientFinish(c, status) ==
    LET done == SetUnknown(c, 1, "Delayed", status)
        told == IF c.owner THEN OwnerNotified([done EXCEPT !.notified = @ + 1])
                ELSE done
    IN  [told EXCEPT !.dsn = 0, !.owner = FALSE]

\* the loop of sendCommand over d->accepted in state Body
RECURSIVE Relay(_, _)
Relay(c, k) ==
    IF k > Len(c.accepted) THEN c
    ELSE Relay(IF c.dsns[c.accepted[k].d][c.accepted[k].i].action = "Unknown"
               THEN SetAction(c, c.accepted[k], "Relayed", << >>)
               ELSE c, k + 1)

\* the loop of sendCommand in state RcptTo: the next recipient from i on
\* whose action is Unknown
RECURSIVE NextUnknown(_, _, _)
NextUnknown(c, d, i) ==
    IF i < 1 \/ i > Len(c.dsns[d]) THEN [d |-> d, i |-> 0]
    ELSE IF c.dsns[d][i].action # "Unknown" THEN NextUnknown(c, d, i + 1)
    ELSE [d |-> d, i |-> i]

\* the octets of a command line with its CR LF, the host name and the
\* addresses taken to be empty
Octets(send) ==
    CASE send = "ehlo" -> 7
      [] send = "mail" -> 14
      [] send = "rcpt" -> 12
      [] OTHER -> 6

\* Connection::enqueue of one command, and d->sent; wsize is the size of
\* the write buffer
ClientEnqueue(c, send) ==
    [c EXCEPT !.wrote = Append(@, send), !.sent = send,
              !.wsize = @ + Octets(send)]

\* SmtpClient::sendCommand
ClientSendCommand(c) ==
    LET rset(f) == ClientEnqueue([f EXCEPT !.state = "Rset"], "rset")
        ended(w) ==
            IF w.accepted # << >>
            THEN ClientEnqueue([w EXCEPT !.state = "Data", !.data = @ \cup {w.dsn}],
                               "data")
            ELSE rset(ClientFinish(w, Status450))
        offer(o) ==
            IF IsRcpt(o, o.rcptTo)
            THEN ClientEnqueue([o EXCEPT !.dsns[o.rcptTo.d][o.rcptTo.i].offered = @ + 1],
                               "rcpt")
            ELSE ended([o EXCEPT !.walked = @ \cup {o.dsn}])
    IN  CASE c.state = "Data" -> [c EXCEPT !.state = "Body"]
          [] c.state = "Banner" -> ClientEnqueue([c EXCEPT !.state = "Hello"], "ehlo")
          [] c.state = "Hello" ->
                IF c.dsn = 0 THEN c
                ELSE ClientEnqueue([c EXCEPT !.state = "MailFrom"], "mail")
          [] c.state = "MailFrom" ->
                offer([c EXCEPT !.state = "RcptTo",
                                !.rcptTo = NextUnknown(c, c.dsn, 1)])
          [] c.state = "RcptTo" ->
                offer([c EXCEPT !.rcptTo =
                           IF IsRcpt(c, c.rcptTo)
                           THEN NextUnknown(c, c.rcptTo.d, c.rcptTo.i + 1)
                           ELSE c.rcptTo])
          [] c.state = "Body" ->
                rset(ClientFinish(IF c.accepted # << >>
                                  THEN Relay([c EXCEPT !.sentMail = TRUE], 1)
                                  ELSE c, Status450))
          [] c.state = "Rset" ->
                [ClientFinish(c, Status450) EXCEPT !.closeTimer = TRUE]
          [] c.state = "Error" -> rset(ClientFinish(c, Status450))
          [] c.state = "Quit" -> [c EXCEPT !.conn = "Closing"]
          [] OTHER -> c

\* SmtpClient::handleFailure
HandleFailure(c, line) ==
    LET status == EnhancedStatus(line, c.enhancedstatuscodes, c.state)
        action == IF At(line, 0) = 53 THEN "Failed" ELSE "Delayed"
    IN  ClientSendCommand(
            IF c.state = "RcptTo"
            THEN SetAction(c, c.rcptTo, action, status)
            ELSE [SetUnknown(c, 1, action, status) EXCEPT !.state = "Error"])

\* white space, as EString::simplified has it
IsSpace(c) == c \in {9, 10, 13, 32}

\* the words of s: the runs of octets that are not white space
RECURSIVE Words(_, _)
Words(s, word) ==
    IF s = << >> THEN (IF word = << >> THEN << >> ELSE <<word>>)
    ELSE IF IsSpace(Head(s))
         THEN (IF word = << >> THEN << >> ELSE <<word>>) \o Words(Tail(s), << >>)
         ELSE Words(Tail(s), Append(word, Head(s)))

\* EString::simplified followed by EString::section( " ", n ): the n-th
\* word, empty if there are fewer
Section(s, n) ==
    LET w == Words(s, << >>)
    IN  IF n <= Len(w) THEN w[n] ELSE << >>

\* SmtpClient::recordExtension (smtputf8 apart): the first word of the line,
\* lower-cased, and for size the number that is the second word
RecordExtension(c, line) ==
    LET l == Drop(line, 4)
        w == LowerStr(Section(l, 1))
    IN  IF w = <<101, 110, 104, 97, 110, 99, 101, 100, 115, 116, 97, 116,
                 117, 115, 99, 111, 100, 101, 115>>
        THEN [c EXCEPT !.enhancedstatuscodes = TRUE]
        ELSE IF w = <<115, 105, 122, 101>>
        THEN [c EXCEPT !.size = TRUE, !.observedSize = Number(Section(l, 2)).n]
        ELSE c

\* a faulty variant of observedSize that ignores the smarthost
ObservedSize_limit(c, memoryLimit) == 150000 * memoryLimit

\* SmtpClient::observedSize; memoryLimit is the configured memory-limit
ObservedSize(c, memoryLimit) ==
    LET result == 150000 * memoryLimit
    IN  IF result > c.observedSize THEN c.observedSize ELSE result

\* a faulty variant of dotted that only appends the terminator
Dotted_plain(s) == s \o <<46, 13, 10>>

\* SmtpClient::dotted, from index i on; sol says that i is at the start of a
\* line
RECURSIVE DottedFrom(_, _, _)
DottedFrom(s, i, sol) ==
    IF i >= Len(s) THEN (IF ~sol THEN <<13, 10>> ELSE << >>) \o <<46, 13, 10>>
    ELSE IF At(s, i) = 13
         THEN <<13, 10>> \o DottedFrom(s, IF At(s, i + 1) = 10 THEN i + 2 ELSE i + 1, TRUE)
    ELSE IF At(s, i) = 10
         THEN <<13, 10>> \o DottedFrom(s, i + 1, TRUE)
    ELSE (IF sol /\ At(s, i) = 46 THEN <<46>> ELSE << >>)
         \o <<At(s, i)>> \o DottedFrom(s, i + 1, FALSE)

\* SmtpClient::dotted
Dotted(s) == DottedFrom(s, 0, TRUE)

\* a faulty variant of parse that takes 421 as it takes any 4xx reply
ClientParseLine_open(c, s) ==
    LET num == Number(Mid(s, 0, 3))
        two(b) == ClientSendCommand(
                      IF IsRcpt(b, b.rcptTo)
                      THEN [b EXCEPT !.accepted = Append(@, b.rcptTo)]
                      ELSE b)
        hello(a) == IF a.state = "Hello" THEN RecordExtension(a, s) ELSE a
        failed(f) == f
    IN  IF ~num.ok THEN [c EXCEPT !.error = "garbage"]
        ELSE IF At(s, 3) = 45 THEN hello(c)
        ELSE IF At(s, 3) # 32 THEN c
        ELSE CASE num.n \div 100 = 1 -> [c EXCEPT !.error = "1xx"]
               [] num.n \div 100 = 2 ->
                    two(hello(IF c.state = "Connected"
                              THEN [c EXCEPT !.state = "Banner"] ELSE c))
               [] num.n \div 100 = 3 ->
                    IF c.state = "Data"
                    THEN LET size == c.wsize + Len(Dotted(c.body))
                         IN  [c EXCEPT !.wsize = size, !.wbs = size, !.wbt = now,
                                       !.state = "Body"]
                    ELSE [c EXCEPT !.error = "3xx"]
               [] num.n \div 100 \in {4, 5} -> failed(HandleFailure(c, s))
               [] OTHER -> c

\* SmtpClient::parse, one line of the read buffer
ClientParseLine(c, s) ==
    LET num == Number(Mid(s, 0, 3))
        two(b) == ClientSendCommand(
                      IF IsRcpt(b, b.rcptTo)
                      THEN [b EXCEPT !.accepted = Append(@, b.rcptTo)]
                      ELSE b)
        hello(a) == IF a.state = "Hello" THEN RecordExtension(a, s) ELSE a
        failed(f) == IF num.n = 421
                     THEN [f EXCEPT !.conn = "Closing", !.state = "Invalid"]
                     ELSE f
    IN  IF ~num.ok THEN [c EXCEPT !.error = "garbage"]
        ELSE IF At(s, 3) = 45 THEN hello(c)
        ELSE IF At(s, 3) # 32 THEN c
        ELSE CASE num.n \div 100 = 1 -> [c EXCEPT !.error = "1xx"]
               [] num.n \div 100 = 2 ->
                    two(hello(IF c.state = "Connected"
                              THEN [c EXCEPT !.state = "Banner"] ELSE c))
               [] num.n \div 100 = 3 ->
                    IF c.state = "Data"
                    THEN LET size == c.wsize + Len(Dotted(c.body))
                         IN  [c EXCEPT !.wsize = size, !.wbs = size, !.wbt = now,
                                       !.state = "Body"]
                    ELSE [c EXCEPT !.error = "3xx"]
               [] num.n \div 100 \in {4, 5} -> failed(HandleFailure(c, s))
               [] OTHER -> c

\* SmtpClient::parse: every line of the read buffer
RECURSIVE ClientParse(_, _)
ClientParse(c, lines) ==
    IF lines = << >> THEN c
    ELSE ClientParse(ClientParseLine(c, Head(lines)), Tail(lines))

\* SmtpClient::logout( 0 ), called by the close timer
ClientLogout(c) ==
    IF c.state # "Rset" THEN c
    ELSE [c EXCEPT !.state = "Quit", !.wrote = Append(@, "quit"), !.sent = "quit"]

\* the end of SmtpClient::react: the owner is notified of a change
ClientNotify(c, old) ==
    IF c.owner /\ <<old.conn, old.state, old.error>> # <<c.conn, c.state, c.error>>
    THEN [c EXCEPT !.notified = @ + 1]
    ELSE c

\* a faulty variant of react that gives up at every timeout
ClientReact_abrupt(c, e, lines) ==
    LET s == [c EXCEPT !.event = e, !.lines = lines, !.wrote = << >>, !.notified = 0]
        refused(r) == ClientFinish([r EXCEPT !.error = "refused"], Status441)
        closed(r) == ClientFinish([r EXCEPT !.error = "closed"], Status442)
        timeout(r) == [ClientFinish([r EXCEPT !.error = "timeout"], Status441)
                          EXCEPT !.conn = "Closing"]
        written == FALSE
    IN  IF e = "Timeout" /\ written
        THEN [s EXCEPT !.wbt = now, !.wbs = s.wsize, !.extended = @ + 1]
        ELSE
        ClientNotify(CASE e = "Read" -> ClientParse(s, lines)
                       [] e = "Timeout" -> timeout(s)
                       [] e = "Connect" -> [s EXCEPT !.state = "Connected", !.conn = "Connected"]
                       [] e = "Close" ->
                            IF s.conn = "Connecting" THEN refused(s)
                            ELSE IF s.state # "Invalid" /\ s.sent # "quit"
                                 THEN closed(s)
                                 ELSE s
                       [] OTHER -> s, c)

\* SmtpClient::react.  event and lines record the event, wrote and notified
\* what this call wrote and how often it notified the owner.
ClientReact(c, e, lines) ==
    LET s == [c EXCEPT !.event = e, !.lines = lines, !.wrote = << >>, !.notified = 0]
        refused(r) == ClientFinish([r EXCEPT !.error = "refused"], Status441)
        closed(r) == ClientFinish([r EXCEPT !.error = "closed"], Status442)
        timeout(r) == [ClientFinish([r EXCEPT !.error = "timeout"], Status441)
                          EXCEPT !.conn = "Closing"]
        written == s.wbs # 0 /\ s.wsize # 0 /\ s.wbs > s.wsize
    IN  IF e = "Timeout" /\ written
        THEN [s EXCEPT !.wbt = now, !.wbs = s.wsize, !.extended = @ + 1]
        ELSE
        ClientNotify(CASE e = "Read" -> ClientParse(s, lines)
                       [] e = "Timeout" -> timeout(s)
                       [] e = "Connect" -> [s EXCEPT !.state = "Connected", !.conn = "Connected"]
                       [] e = "Close" ->
                            IF s.conn = "Connecting" THEN refused(s)
                            ELSE IF s.state # "Invalid" /\ s.sent # "quit"
                                 THEN closed(s)
                                 ELSE s
                       [] OTHER -> s, c)

\* the socket takes all that the write buffer holds
Written(c) == [c EXCEPT !.wsize = 0]

\* SmtpClientData::SmtpClientData and SmtpClient::SmtpClient
ClientInit ==
    [conn |-> "Connecting", state |-> "Invalid", dsn |-> 0, rcptTo |-> NoRcpt,
     accepted |-> << >>, owner |-> FALSE, sentMail |-> FALSE,
     enhancedstatuscodes |-> FALSE, sent |-> "", error |-> "",
     closeTimer |-> FALSE, dsns |-> << >>, data |-> {}, walked |-> {},
     event |-> "", lines |-> << >>, wrote |-> << >>, notified |-> 0,
     size |-> FALSE, observedSize |-> 0, body |-> << >>, dotted |-> << >>,
     eager |-> << >>, asked |-> 0, wsize |-> 0, wbs |-> 0, wbt |-> 0,
     extended |-> 0]

(***************************************************************************)
(* SpoolManager, DeliveryAgent and the tables deliveries and               *)
(* delivery_recipients.  A row of db is one message with one delivery:     *)
(* rcpts are its delivery_recipients (action, status), wait is what the    *)
(* queue query computes as its delay, retry is can_retry, and lock is the  *)
(* agent whose transaction has locked the delivery (0: none).              *)
(***************************************************************************)
UintMax == 2147483647       \* UINT_MAX, as the greatest number the checker has

\* DeliveryAgentData::DeliveryAgentData and DeliveryAgent::DeliveryAgent.
\* qm is the state of the locking query, row tells whether d->deliveryRow is
\* set, fetch is the state of the fetchers and of qs and qr, dsn is the DSN
\* (0: none), t the state of the transaction, commits the number of calls of
\* Transaction::commit, bounces the number of injectors made, and owner the
\* SpoolManager that made the agent.
NoInjector == [sender |-> "", addresses |-> << >>, mailbox |-> "", state |-> "none"]

NewAgent(message) ==
    [message |-> message, qm |-> "none", row |-> FALSE, fetch |-> "none",
     dsn |-> 0, injector |-> NoInjector, update |-> FALSE, writes |-> << >>,
     t |-> "none", senders |-> 0, sent |-> 0, spinning |-> FALSE,
     commits |-> 0, bounces |-> 0, owner |-> 0]

\* DeliveryAgent::working: the agent has not finished
Working(a) == a.t \notin {"done", "failed"}

\* the deliveries that a queue run looks at: those with a recipient whose
\* action is Unknown or Delayed
Spooled(s) ==
    {m \in 1..Len(s.db) :
        \E i \in 1..Len(s.db[m].rcpts) :
            s.db[m].rcpts[i].action \in {"Unknown", "Delayed"}}

\* SpoolManager::reset
SpoolReset(s) == [s EXCEPT !.t = IF s.again THEN 1 ELSE 0, !.q = "none"]

\* SpoolManager::shutdown
SpoolShutdown(s) ==
    [s EXCEPT !.t = IF s.sm THEN 0 ELSE @, !.sm = FALSE, !.shutdown = TRUE]

\* SpoolManager::execute, the loop over d->agents: the agents that are not
\* working are taken out of the list
RECURSIVE TakeIdle(_, _)
TakeIdle(s, listed) ==
    IF listed = << >> THEN << >>
    ELSE IF Working(s.agents[Head(listed)])
         THEN <<Head(listed)>> \o TakeIdle(s, Tail(listed))
         ELSE TakeIdle(s, Tail(listed))

\* SpoolManager::execute, the loop over the rows of the query, in the order
\* of their delay.  r.delay is the delay so far, r.s the spool.
RECURSIVE SpoolRows(_, _)
SpoolRows(r, rows) ==
    IF rows = << >> THEN r
    ELSE LET m == Head(rows)
             deliverableAt == r.s.db[m].wait
             spawn(s) == [s EXCEPT !.agents = Append(@, [NewAgent(m) EXCEPT
                                                              !.owner = s.made]),
                                   !.listed = Append(@, Len(s.agents) + 1)]
         IN  SpoolRows(IF deliverableAt <= 0
                       THEN [r EXCEPT !.s = spawn(@)]
                       ELSE IF r.delay > deliverableAt
                            THEN [r EXCEPT !.delay = deliverableAt]
                            ELSE r, Tail(rows))

\* the rows of the queue query: the spooled messages not in have, ordered
\* by delay
RECURSIVE QueueRows(_, _)
QueueRows(s, ms) ==
    IF ms = {} THEN << >>
    ELSE LET m == CHOOSE x \in ms : \A y \in ms :
                      \/ s.db[x].wait < s.db[y].wait
                      \/ s.db[x].wait = s.db[y].wait /\ x <= y
         IN  <<m>> \o QueueRows(s, ms \ {m})

\* a faulty variant of Have that forgets the agents
Have_none(s, listed) == {}

\* SpoolManager::execute, the messages that the agents in d->agents are
\* working on

Have(s, listed) ==
    {s.agents[listed[k]].message :
        k \in {j \in 1..Len(listed) : Working(s.agents[listed[j]])}}

\* SpoolManager::execute.  run records the rows of the last queue run that
\* had rows and the agents there were before it.
SpoolExecute(s) ==
    LET start(b) ==
            [SpoolReset([b EXCEPT !.listed = TakeIdle(b, b.listed), !.again = FALSE])
                EXCEPT !.q = "running",
                       !.have = Have(b, b.listed)]
        armed(r) == [r.s EXCEPT !.t = IF r.delay < UintMax THEN r.delay ELSE @,
                                !.q = "none"]
        finish(b, rows) ==
            IF rows = << >> THEN SpoolReset(b)
            ELSE SpoolReset(armed(SpoolRows(
                     [s |-> [b EXCEPT !.run = [n |-> @.n + 1, rows |-> rows,
                                               agents |-> Len(b.agents)]],
                      delay |-> UintMax], rows)))
    IN  IF s.q = "none" THEN start(s)
        ELSE IF s.q = "running" THEN s
        ELSE finish(s, QueueRows(s, Spooled(s) \ s.have))

\* a faulty variant of deliverNewMessage that always calls reset()
DeliverNewMessage_reset(s) == SpoolReset([s EXCEPT !.again = TRUE])

\* SpoolManager::deliverNewMessage
DeliverNewMessage(s) ==
    IF s.q # "none" THEN [s EXCEPT !.again = TRUE]
    ELSE SpoolReset([s EXCEPT !.again = TRUE])

\* SpoolManager::setup and SpoolManager::SpoolManager
SpoolSetup(s) ==
    IF s.sm THEN s
    ELSE [s EXCEPT !.sm = TRUE, !.made = @ + 1, !.q = "none", !.have = {},
                   !.t = 0, !.again = FALSE, !.listed = << >>, !.idle = TRUE]

\* the recipients of the DSN of a delivery, with the stored action and status
DsnOfRows(rcpts) ==
    [k \in 1..Len(rcpts) |-> NewRecipient(rcpts[k].action, rcpts[k].status)]

\* DSN::deliveriesPending
DeliveriesPending(dsn) == \E k \in 1..Len(dsn) : dsn[k].action = "Unknown"

\* DSN::allOk: no recipient has failed or is delayed
AllOk(dsn) == \A k \in 1..Len(dsn) : dsn[k].action \notin {"Failed", "Delayed", "Unknown"}

\* the update queries of DeliveryAgent::execute: one for each recipient
\* whose action is not Unknown
RECURSIVE Updates(_, _)
Updates(dsn, k) ==
    IF k > Len(dsn) THEN << >>
    ELSE (IF dsn[k].action = "Unknown" THEN << >>
          ELSE <<[recipient |-> k, action |-> dsn[k].action, status |-> dsn[k].status]>>)
         \o Updates(dsn, k + 1)

\* a faulty variant of NewInjector: the bounce has the sender of the message
\* as its envelope sender
NewInjector_from(sender) ==
    [sender |-> sender.name, addresses |-> <<sender>>,
     mailbox |-> "/archiveopteryx/spool", state |-> "running"]

\* the bounce that DeliveryAgent::execute injects for a DSN: the envelope
\* sender is empty, and the sender of the message is the only address it is
\* delivered to
NewInjector(sender) ==
    [sender |-> "", addresses |-> <<sender>>, mailbox |-> "/archiveopteryx/spool",
     state |-> "running"]

\* DeliveryAgent::execute for the agent i, from its loop on.  s.box tells
\* whether Mailbox::find knows /archiveopteryx/spool.  The result is the
\* spool and the client.  Nothing in the loop resets d->deliveryRow, so that
\* once the updates are enqueued an iteration that gets past client->ready()
\* changes nothing that the loop tests, except that it counts d->sent again
\* if the DSN is allOk: execute() does not return then (spinning, and the
\* process with it: hung).
RECURSIVE AgentLoop(_, _, _)
AgentLoop(s, c, i) ==
    LET a == s.agents[i]
        out(b, d) == [s |-> b, c |-> d]
        ended(b, d) ==
            LET e == b.agents[i]
                committed(f) ==
                    IF f.agents[i].t \in {"open", "committing"} THEN out(f, d)
                    ELSE IF f.agents[i].t = "failed" THEN out(SpoolShutdown(f), d)
                    ELSE out(f, d)
            IN  committed(IF e.qm = "done" /\ e.t \in {"open", "committing"}
                          THEN [b EXCEPT !.agents[i].t = "committing",
                                         !.agents[i].commits = @ + 1]
                          ELSE b)
        spin(b, d) == out([b EXCEPT !.agents[i].spinning = TRUE, !.hung = TRUE], d)
        update(b, d) ==
            IF b.agents[i].injector.state = "running" THEN out(b, d)
            ELSE IF a.update THEN spin(b, d)
            ELSE AgentLoop([b EXCEPT !.agents[i].update = TRUE,
                                     !.agents[i].writes =
                                         Updates(d.dsns[b.agents[i].dsn], 1)],
                           d, i)
        inject(b, d) ==
            IF b.agents[i].injector.state # "none" THEN update(b, d)
            ELSE IF AllOk(d.dsns[b.agents[i].dsn])
                 THEN update([b EXCEPT !.agents[i].sent = @ + 1], d)
                 ELSE IF b.box /\ b.db[a.message].sender.type = "Normal"
                 THEN update([b EXCEPT !.agents[i].injector =
                                           NewInjector(b.db[a.message].sender),
                                       !.agents[i].bounces = @ + 1], d)
                 ELSE update(b, d)
        sent(b, d) ==
            IF DeliveriesPending(d.dsns[b.agents[i].dsn]) THEN out(b, d)
            ELSE inject(b, d)
        send(b, d) ==
            IF b.agents[i].dsn # 0 THEN sent(b, d)
            ELSE sent([b EXCEPT !.agents[i].dsn = Len(d.dsns) + 1],
                      ClientSend([d EXCEPT !.event = "Send", !.lines = << >>,
                                           !.wrote = << >>, !.notified = 0],
                                 DsnOfRows(b.db[a.message].rcpts)))
        fetched(b, d) ==
            IF b.agents[i].fetch # "done" THEN out(b, d)
            ELSE IF ~ClientReady(d) THEN out(b, d)
            ELSE send(b, d)
        fetch(b, d) ==
            fetched(IF b.agents[i].fetch = "none"
                    THEN [b EXCEPT !.agents[i].fetch = "running"] ELSE b, d)
        usable(b, d) ==
            fetch(b, IF d.conn = "Closing"
                     THEN [ClientInit EXCEPT !.dsns = d.dsns, !.data = d.data,
                                             !.walked = d.walked]
                     ELSE d)
    IN  IF a.row THEN usable(s, c)
        ELSE IF a.qm = "done" /\ a.senders = 0
             THEN IF s.db[a.message].retry
                  THEN usable([s EXCEPT !.agents[i].row = TRUE,
                                        !.agents[i].senders = @ + 1], c)
                  ELSE ended([s EXCEPT !.agents[i].senders = @ + 1], c)
             ELSE ended(s, c)

\* DeliveryAgent::execute for the agent i
AgentExecute(s, c, i) ==
    IF s.agents[i].t = "none"
    THEN AgentLoop([s EXCEPT !.agents[i].t = "open", !.agents[i].qm = "running"],
                   c, i)
    ELSE AgentLoop(s, c, i)

\* the state of the spool before SpoolManager::setup
SpoolInit ==
    [sm |-> FALSE, shutdown |-> FALSE, made |-> 0, q |-> "none", have |-> {},
     t |-> 0, again |-> FALSE, idle |-> FALSE, listed |-> << >>,
     agents |-> << >>, db |-> << >>, hung |-> FALSE, box |-> TRUE,
     run |-> [n |-> 0, rows |-> << >>, agents |-> 0]]

Init ==
    /\ imap = ImapInit
    /\ smtp = SmtpInit
    /\ now = Epoch
    /\ inShutdown = FALSE
    /\ env = EnvInit
    /\ client = ClientInit
    /\ spool = SpoolInit

(***************************************************************************)
(* What the client sends: command lines, each with the next tag (a, b,     *)
(* ...).                                                                   *)
(***************************************************************************)
ClientLine(n, body) == <<96 + n, 32>> \o body \o <<13, 10>>

LoginBody == <<108, 111, 103, 105, 110, 32, 117, 32, 112>>        \* login u p
SelectBody == <<115, 101, 108, 101, 99, 116, 32, 109>>            \* select m
NoopBody == <<110, 111, 111, 112>>                                \* noop
IdleBody == <<105, 100, 108, 101>>                                \* idle
LogoutBody == <<108, 111, 103, 111, 117, 116>>                    \* logout
UidFetchBody == <<117, 105, 100, 32, 102, 101, 116, 99, 104, 32,
                  49, 32, 102, 108, 97, 103, 115>>                \* uid fetch 1 flags
FetchBody == <<102, 101, 116, 99, 104, 32, 49, 32,
               98, 111, 100, 121, 91, 93>>                        \* fetch 1 body[]
StoreBody == <<115, 116, 111, 114, 101, 32, 49, 32, 102>>         \* store 1 f
CopyBody == <<99, 111, 112, 121, 32, 49, 32, 109>>                \* copy 1 m
BogusBody == <<122, 122, 122>>                                    \* zzz
BadArgsBody == <<110, 111, 111, 112, 32, 33>>                     \* noop !

\* the client opens with LOGIN and SELECT, pipelined
Opening == ClientLine(1, LoginBody) \o ClientLine(2, SelectBody)

(***************************************************************************)
(* Actions.                                                                *)
(***************************************************************************)
\* a Read event: the octets of chunk have arrived in the read buffer
Read(chunk, junk) ==
    /\ imap.connState = "Connected"
    /\ imap' = ReactRead([imap EXCEPT !.rbuf = @ \o chunk,
                                      !.input = @ \o chunk], junk)
    /\ UNCHANGED <<smtp, now, inShutdown, client, spool>>

\* the client sends its opening
SendOpening ==
    /\ env.tags = 0
    /\ env.reads = 0
    /\ Read(Opening, 0)
    /\ env' = [env EXCEPT !.tags = 2]

\* the command lines of the bodies of batch, with the tags after n
RECURSIVE Lines(_, _)
Lines(n, batch) ==
    IF batch = << >> THEN << >>
    ELSE ClientLine(n + 1, Head(batch)) \o Lines(n + 1, Tail(batch))

\* the batches of one command line each
Single(bodies) == {<<body>> : body \in bodies}

\* the client sends the command lines of one of the batches, pipelined
Send(batches) ==
    \E batch \in batches :
        /\ env.tags >= 2
        /\ env.reads < MaxReads
        /\ ~env.quit
        /\ imap.reader = 0
        /\ Read(Lines(env.tags, batch), 0)
        /\ env' = [env EXCEPT !.reads = @ + 1, !.tags = @ + Len(batch),
                              !.quit = batch[Len(batch)] = LogoutBody]

\* the client ends an IDLE
SendDone ==
    /\ imap.reader # 0
    /\ env.cur = << >>
    /\ Read(<<100, 111, 110, 101, 13, 10>>, 0)
    /\ UNCHANGED <<env, client, spool>>

\* what the client of Spec sends: one command, or two in a pipeline
MixedBodies == {NoopBody, UidFetchBody, FetchBody, StoreBody, LogoutBody, BogusBody}

Pipelines == {<<StoreBody, StoreBody>>, <<UidFetchBody, UidFetchBody>>,
              <<UidFetchBody, StoreBody>>, <<UidFetchBody, BogusBody>>}

SendCommand == Send(Single(MixedBodies) \cup Pipelines)

\* whether command c is waiting for a result of the database
AwaitsResult(s, c) ==
    /\ c.state = "Executing"
    /\ c.res = "wait"
    /\ c.err = "none"
    /\ HandlerNamed(c.name).db
    /\ c.name \in {"fetch", "uid fetch"} =>
           /\ c.peek \/ c.store # 0
           /\ ~(c.store # 0 /\ HasCmd(s, c.store)
                /\ CmdOf(s, c.store).state = "Executing")

Results(c) == IF c.name = "login" THEN {"ok", "noinbox", "no"} ELSE {"ok", "no"}

\* a query of an executing command completes, and the command is run
QueryDone ==
    \E k \in 1..Len(imap.commands) :
        \E r \in Results(imap.commands[k]) :
            /\ AwaitsResult(imap, imap.commands[k])
            /\ imap' = RunCommands(Run([imap EXCEPT !.commands[k].res = r],
                                       imap.commands[k].id))
            /\ UNCHANGED <<smtp, now, inShutdown, env, client, spool>>

\* A second passes.  The clock is read only to compare it with the time of
\* the last syntax error and with the timers, so it is left alone until
\* there is one of these.
Tick ==
    /\ now < Epoch + MaxTime
    /\ imap.syntaxErrors > 0 \/ imap.timers # {}
    /\ now' = now + 1
    /\ UNCHANGED <<imap, smtp, inShutdown, env, client, spool>>

\* a BadBouncer timer fires
BadBouncer ==
    \E t \in imap.timers :
        /\ t <= now
        /\ imap' = UnblockCommands([imap EXCEPT !.timers = @ \ {t}])
        /\ UNCHANGED <<smtp, now, inShutdown, env, client, spool>>

\* the event loop starts to shut down
BeginShutdown ==
    /\ ~inShutdown
    /\ inShutdown' = TRUE
    /\ UNCHANGED <<imap, smtp, now, env, client, spool>>

\* the Shutdown event reaches the connection
Shutdown ==
    /\ inShutdown
    /\ ~env.shutdownSent
    /\ imap' = ReactShutdown(imap)
    /\ env' = [env EXCEPT !.shutdownSent = TRUE]
    /\ UNCHANGED <<smtp, now, inShutdown, client, spool>>

\* the mailbox session reports an expunge: it queues the response and has
\* the connection emit what it may
Expunge ==
    /\ imap.session
    /\ env.expunges < MaxExpunges
    /\ imap' = EmitResponses(Respond(imap, "EXPUNGE", TRUE))
    /\ env' = [env EXCEPT !.expunges = @ + 1]
    /\ UNCHANGED <<smtp, now, inShutdown, client, spool>>

\* the client closes the connection: the Close event, after which the event
\* loop drops the connection
Close ==
    /\ imap.connState = "Connected"
    /\ imap' = [ReactClose(imap) EXCEPT !.connState = "Invalid"]
    /\ UNCHANGED <<smtp, now, inShutdown, env, client, spool>>

\* the mailbox session creates an implicit fetch for flag updates
ImplicitFetch ==
    /\ imap.session
    /\ env.implicit < MaxImplicit
    /\ imap' = RunCommands(ImplicitFetchCtor(imap))
    /\ env' = [env EXCEPT !.implicit = @ + 1]
    /\ UNCHANGED <<smtp, now, inShutdown, client, spool>>

Next ==
    \/ SendOpening
    \/ SendCommand
    \/ QueryDone
    \/ Tick
    \/ BadBouncer
    \/ BeginShutdown
    \/ ImplicitFetch

Spec == Init /\ [][Next]_vars

(***************************************************************************)
(* Properties of the scheduler, under Spec.                                *)
(***************************************************************************)
Executing(q) == {k \in 1..Len(q) : q[k].state = "Executing"}

\* C1: at most one command of group 0 is Executing, and while a command of
\* group 0 is Executing no other command of the queue is Executing.
C1_SolitaryGroupZero ==
    LET ex == Executing(imap.commands)
        zero == {k \in ex : imap.commands[k].group = 0}
    IN  /\ Cardinality(zero) <= 1
        /\ zero # {} => Cardinality(ex) = 1

\* the tagged lines of w
TaggedLines(w) == SelectSeq(w, LAMBDA l : l.k = "tagged")

\* the place of tag in the tags received
Received(tag) == Least({k \in 1..Len(imap.recv) : imap.recv[k] = tag})

\* the tagged lines ls are in the order in which their tags were received
InReceiptOrder(ls) ==
    \A i, j \in 1..Len(ls) :
        i < j /\ ls[i].tag # ls[j].tag => Received(ls[i].tag) < Received(ls[j].tag)

\* the lines addCommand writes at once, without queueing a command
Immediate == {"BAD No such command", "NO shutdown"}

\* C2 as stated: all tagged lines written, those that addCommand writes at
\* once included, are in the order in which their tags were received.
C2_AllTaggedInReceiptOrder == InReceiptOrder(TaggedLines(imap.wbuf))

\* C2: the tagged lines of the commands that were queued are written in the
\* order in which their tags were received.
C2_QueuedTaggedInReceiptOrder ==
    InReceiptOrder(SelectSeq(TaggedLines(imap.wbuf),
                             LAMBDA l : l.txt \notin Immediate))

\* two queued commands have been answered, and a third was answered at once
C2_Witness ==
    /\ Len(SelectSeq(TaggedLines(imap.wbuf), LAMBDA l : l.txt \notin Immediate)) >= 3
    /\ \E k \in 1..Len(imap.wbuf) : imap.wbuf[k].txt \in Immediate

\* C5 as stated: in a pass with an Executing leader of a group other than 0,
\* the command directly behind it, if it is of the same group and has no
\* error, is Executing after the pass.
C5_FollowerPromoted ==
    LET b == imap.pass.before
        a == imap.pass.after
    IN  \A k \in 1..(Len(a) - 1) :
            /\ Len(a) = Len(b)
            /\ k = 1
            /\ a[k].state = "Executing"
            /\ a[k].group # 0
            /\ a[k + 1].group = a[k].group
            /\ b[k + 1].state \in {"Unparsed", "Blocked"}
            /\ a[k + 1].err = "none"
            => a[k + 1].state = "Executing"

(***************************************************************************)
(* The server that shuts down while the client goes on.                    *)
(***************************************************************************)
ShutdownNext ==
    \/ SendOpening
    \/ SendCommand
    \/ QueryDone
    \/ Tick
    \/ BadBouncer
    \/ BeginShutdown
    \/ Shutdown

ShutdownSpec == Init /\ [][ShutdownNext]_vars

\* the lines that a step has added to the write buffer
NewLines == SubSeq(imap'.wbuf, Len(imap.wbuf) + 1, Len(imap'.wbuf))

\* the command strings that a step has handed to addCommand
NewStrings == SubSeq(imap'.lines, Len(imap.lines) + 1, Len(imap'.lines))

Logout == <<108, 111, 103, 111, 117, 116>>

\* what C10 says of the command string str, received in shutdown
RejectedInShutdown(str) ==
    LET has(l) == \E k \in 1..Len(NewLines) : NewLines[k] = l
        check(p) ==
            LET queued == \E k \in 1..Len(imap'.commands) :
                              imap'.commands[k].tag = p.tag
            IN  p.tagOk /\ p.nameOk =>
                    IF p.name # Logout
                    THEN /\ has(OutLine("tagged", p.tag, "NO shutdown"))
                         /\ ~queued
                         /\ Executing(imap.commands) = {} =>
                                /\ has(OutLine("untagged", << >>, "BYE"))
                                /\ imap'.connState = "Closing"
                    ELSE /\ ~has(OutLine("tagged", p.tag, "NO shutdown"))
                         /\ queued \/ \E k \in 1..Len(NewLines) :
                                          /\ NewLines[k].k = "tagged"
                                          /\ NewLines[k].tag = p.tag
    IN  check(ParseFirstWords(str))

\* C10: in shutdown, a command other than LOGOUT is answered with the NO and
\* is not queued, and with BYE and Closing if no command is Executing; a
\* LOGOUT is queued.
C10_ShutdownRejects ==
    [][inShutdown => \A k \in 1..Len(NewStrings) : RejectedInShutdown(NewStrings[k])]_vars

\* a command was rejected in shutdown while another was Executing, so that
\* the connection is still Connected
C10_Witness ==
    /\ \E k \in 1..Len(imap.wbuf) : imap.wbuf[k].txt = "NO shutdown"
    /\ imap.connState = "Connected"
    /\ Executing(imap.commands) # {}

(***************************************************************************)
(* The client that reads a mailbox which others change: the session        *)
(* reports expunges while commands are queued.                             *)
(***************************************************************************)
ReadingBodies == {UidFetchBody, FetchBody, StoreBody, CopyBody, IdleBody}

SendReading == Send(Single(ReadingBodies))

ExpungeNext ==
    \/ SendOpening
    \/ SendReading
    \/ SendDone
    \/ QueryDone
    \/ Expunge
    \/ ImplicitFetch

ExpungeSpec == Init /\ [][ExpungeNext]_vars

\* a command in the queue during which an expunge may not be sent
ForbidsExpunge(q) ==
    \E k \in 1..Len(q) :
        \/ q[k].state = "Executing" /\ q[k].name # "idle"
        \/ q[k].group \in {2, 3}
        \/ q[k].usesMsn /\ q[k].name # "copy"

\* the places in the write buffer of the responses that change MSNs
Expunges == {i \in 1..Len(imap.wbuf) : imap.wbuf[i].txt = "EXPUNGE"}

\* C3: no response that changes MSNs is written while a command other than
\* IDLE is Executing, or a command of group 2 or 3, or one that uses MSNs and
\* is not COPY, is in the queue.
C3_NoExpungeWhileForbidden ==
    \A i \in Expunges : ~ForbidsExpunge(imap.wbuf[i].q)

\* an expunge is held back because of a command in the queue
C3_Witness ==
    /\ \E k \in 1..Len(imap.responses) : imap.responses[k].changesMsn
    /\ ForbidsExpunge(imap.commands)

\* C4 as stated: the EXPUNGE for a change that happened while a tagged UID
\* command was in the queue is written after the tagged line of that command.
C4_ExpungeAfterTaggedLine ==
    \A i \in Expunges : \A t \in imap.wbuf[i].during :
        \E j \in 1..(i - 1) : imap.wbuf[j].k = "tagged" /\ imap.wbuf[j].tag = t

\* C4: the EXPUNGE for a change that happened while a tagged UID command was
\* in the queue is not written while that command is Executing.
C4_NoExpungeWhileExecuting ==
    \A i \in Expunges : \A t \in imap.wbuf[i].during :
        \A k \in 1..Len(imap.wbuf[i].q) :
            imap.wbuf[i].q[k].tag = t => imap.wbuf[i].q[k].state # "Executing"

\* the EXPUNGE was written when the UID command had finished, directly
\* before its tagged line
C4_Witness ==
    \E i \in Expunges : \E t \in imap.wbuf[i].during :
        /\ i < Len(imap.wbuf)
        /\ imap.wbuf[i + 1].k = "tagged"
        /\ imap.wbuf[i + 1].tag = t
        /\ \E k \in 1..Len(imap.wbuf[i].q) :
               imap.wbuf[i].q[k].tag = t /\ imap.wbuf[i].q[k].state = "Finished"

(***************************************************************************)
(* The client that makes mistakes: unknown commands and bad arguments, one *)
(* at a time or in a burst.                                                *)
(***************************************************************************)
HastyBodies == {NoopBody, UidFetchBody, BogusBody, BadArgsBody}

SendHasty == Send(Single(HastyBodies))

RECURSIVE Burst(_)
Burst(n) == IF n = 0 THEN << >> ELSE <<120, 32>> \o BogusBody \o <<13, 10>> \o Burst(n - 1)

\* the lines of a burst: few, or more than the delay is capped at
BurstSizes == {3, 17}

SendBurst ==
    \E n \in BurstSizes :
        /\ env.tags >= 2
        /\ env.reads < MaxReads
        /\ ~env.burst
        /\ Read(Burst(n), 0)
        /\ env' = [env EXCEPT !.reads = @ + 1, !.burst = TRUE]

RateNext ==
    \/ SendOpening
    \/ SendHasty
    \/ SendBurst
    \/ QueryDone
    \/ Tick
    \/ BadBouncer

RateSpec == Init /\ [][RateNext]_vars

\* the delay of the last pass as C6 has it
ClaimedDelay == Min(16, imap.pass.errors) - (imap.pass.at - imap.pass.last)

\* the commands of the last pass that are waiting to be started
Waiting == {k \in 1..Len(imap.pass.start) :
               imap.pass.start[k].state \in {"Unparsed", "Blocked"}}

\* what C6 says of a pass, but for the time of the wake-up: if the delay is
\* above 0 and the queue is not empty the pass starts no command, it has
\* stepped the Executing commands, and it has emitted the leading Finished
\* commands
HeldPass ==
    ClaimedDelay > 0 /\ imap.pass.before # << >> =>
        /\ imap.pass.held
        /\ \A k \in Waiting :
               \E j \in 1..Len(imap.pass.after) :
                   imap.pass.after[j] = imap.pass.start[k]
        /\ \A k \in Executing(imap.pass.start) :
               \E j \in 1..Len(imap.ran) : imap.ran[j] = imap.pass.start[k].id
        /\ imap.pass.after[1].state # "Finished"

\* C6 as stated: a pass with a delay above 0 and a queue that is not empty
\* starts no command, and its wake-up is after exactly delay seconds.
C6_WakeUpAfterDelay ==
    /\ HeldPass
    /\ ClaimedDelay > 0 /\ imap.pass.before # << >> =>
           /\ imap.pass.timer - imap.pass.at = ClaimedDelay
           /\ ClaimedDelay <= 16

\* C6: a pass with a delay above 0 and a queue that is not empty starts no
\* command, and its wake-up is after delay seconds, or after 4 seconds if
\* the user has no inbox and delay is less than 4.
C6_WakeUpAfterDelayOrFour ==
    /\ HeldPass
    /\ ClaimedDelay > 0 /\ imap.pass.before # << >> =>
           /\ imap.pass.timer - imap.pass.at =
                  IF imap.pass.noinbox /\ ClaimedDelay < 4 THEN 4 ELSE ClaimedDelay
           /\ ClaimedDelay <= 16

\* after three syntax errors in the same second a command is held, Unparsed,
\* for three seconds, while another is Executing
C6_Witness ==
    /\ imap.pass.held
    /\ imap.pass.errors = 3
    /\ imap.pass.timer - imap.pass.at = 3
    /\ Waiting # {}
    /\ Executing(imap.pass.start) # {}

(***************************************************************************)
(* The client that goes away while commands are queued.                    *)
(***************************************************************************)
CloseNext ==
    \/ SendOpening
    \/ SendCommand
    \/ QueryDone
    \/ ImplicitFetch
    \/ Close

CloseSpec == Init /\ [][CloseNext]_vars

\* the states in which react( Close ) gives a command the error
Unfinished == {"Unparsed", "Blocked", "Executing"}

\* C11 as stated: after a Close event every command that was not Retired
\* has the error NO, and there is no mailbox session.
C11_AllNotRetiredMarked ==
    imap.close.n > 0 =>
        /\ \A k \in 1..Len(imap.close.before) :
               imap.close.before[k].state # "Retired" =>
                   imap.close.after[k].err = "no"
        /\ ~imap.session

\* C11: after a Close event every command that was Unparsed, Blocked or
\* Executing has the error NO, every other command has the result it had,
\* and there is no mailbox session.
C11_UnfinishedMarked ==
    imap.close.n > 0 =>
        /\ Len(imap.close.after) = Len(imap.close.before)
        /\ \A k \in 1..Len(imap.close.before) :
               imap.close.after[k].err =
                   IF imap.close.before[k].state \in Unfinished
                   THEN "no" ELSE imap.close.before[k].err
        /\ ~imap.session

\* the connection was closed with a session, while one command was
\* Executing and another Finished without an error
C11_Witness ==
    /\ imap.close.n > 0
    /\ imap.close.session
    /\ \E k \in 1..Len(imap.close.before) :
           imap.close.before[k].state = "Executing"
    /\ \E k \in 1..Len(imap.close.before) :
           /\ imap.close.before[k].state = "Finished"
           /\ imap.close.after[k].err = "none"

(***************************************************************************)
(* The SMTP server's transactions: the commands of a client set and reset  *)
(* the transaction variables.                                              *)
(***************************************************************************)
MaxCalls == 3          \* calls of SMTP::transactionId
MaxResets == 1         \* calls of SMTP::reset
MaxRecipients == 2     \* recipients of a transaction

SmtpStep(s) ==
    /\ smtp' = s
    /\ UNCHANGED <<imap, now, inShutdown, env, client, spool>>

\* HELO, EHLO or LHLO
SmtpHelo ==
    /\ smtp.heloName = << >>
    /\ SmtpStep(SmtpSetHeloName(smtp, <<104>>))

\* AUTH succeeds
SmtpAuth ==
    /\ smtp.user = "none"
    /\ SmtpStep(SmtpAuthenticated(smtp, "u"))

\* a valid RCPT TO
SmtpRcpt ==
    /\ Len(smtp.recipients) < MaxRecipients
    /\ SmtpStep(SmtpAddRecipient(smtp, Len(smtp.recipients) + 1))

\* DATA: the server reads a body next
SmtpData ==
    /\ smtp.inputState = "Command"
    /\ smtp.body = << >>
    /\ SmtpStep(SmtpSetInputState(smtp, "Data"))

\* the body has been read
SmtpBody ==
    /\ smtp.inputState = "Data"
    /\ SmtpStep(SmtpSetInputState(SmtpSetBody(smtp, <<98>>), "Command"))

\* the client gives the id of the transaction
SmtpGiveId ==
    /\ smtp.id # <<0, "client", "x">>
    /\ SmtpStep(SmtpSetTransactionId(smtp, <<0, "client", "x">>))

\* a command asks for the id of the transaction
SmtpAskId ==
    /\ smtp.calls < MaxCalls
    /\ SmtpStep([SmtpTransactionId(smtp) EXCEPT !.calls = @ + 1])

\* a command asks for the time of the transaction
SmtpAskTime ==
    /\ smtp.now = 0
    /\ SmtpStep(SmtpTransactionTime(smtp))

\* RSET, or the end of a transaction
SmtpRset ==
    /\ smtp.resets < MaxResets
    /\ SmtpStep([SmtpReset(smtp) EXCEPT !.resets = @ + 1])

\* a second passes
Wait ==
    /\ now < Epoch + MaxTime
    /\ now' = now + 1
    /\ UNCHANGED <<imap, smtp, inShutdown, env, client, spool>>

TransactionNext ==
    \/ SmtpHelo
    \/ SmtpAuth
    \/ SmtpRcpt
    \/ SmtpData
    \/ SmtpBody
    \/ SmtpGiveId
    \/ SmtpAskId
    \/ SmtpAskTime
    \/ SmtpRset
    \/ Wait

TransactionSpec == Init /\ [][TransactionNext]_vars

\* what a reset leaves alone
SmtpKept(s) == <<s.heloName, s.dialect, s.user, s.permittedAddresses, s.inputState>>

MaxChunks == 5         \* Read events of the connection of ParseSpec

\* the chunks of a command and the command string they make
Script(chunks, whole) == [chunks |-> chunks, whole |-> whole]

\* the commands of the client whose tag is the octet t
Scripts(t) == {
    \* t login {1} / u {1} / p
    Script(<< <<t>> \o <<32, 108, 111, 103, 105, 110, 32, 123, 49, 125, 13, 10>>, <<117, 32, 123, 49, 125, 13, 10>>, <<112, 13, 10>> >>, <<t>> \o <<32, 108, 111, 103, 105, 110, 32, 123, 49, 125, 13, 10, 117, 32, 123, 49, 125, 13, 10, 112>>),
    \* t login {1+} / u {1+} / p, in one chunk
    Script(<< <<t>> \o <<32, 108, 111, 103, 105, 110, 32, 123, 49, 43, 125, 13, 10, 117, 32, 123, 49, 43, 125, 13, 10, 112, 13, 10>> >>, <<t>> \o <<32, 108, 111, 103, 105, 110, 32, 123, 49, 43, 125, 13, 10, 117, 32, 123, 49, 43, 125, 13, 10, 112>>),
    \* t login {9}, which is above the limit
    Script(<< <<t>> \o <<32, 108, 111, 103, 105, 110, 32, 123, 57, 125, 13, 10>> >>, <<t>> \o <<32, 108, 111, 103, 105, 110, 32, 123, 57, 125, 13, 10>>),
    Script(<< <<t>> \o <<32, 105, 100, 108, 101, 13, 10>> >>, <<t>> \o <<32, 105, 100, 108, 101>>),
    Script(<< <<t>> \o <<32, 110, 111, 111, 112, 13, 10>> >>, <<t>> \o <<32, 110, 111, 111, 112>>) }

\* LOCAL; PROXY over TCPv4; PROXY over TCPv4 without the addresses; and a
\* leader of version 1
Leaders == {
    V2sig \o <<32, 0, 0, 0>>,
    V2sig \o <<33, 17, 0, 12>> \o <<10, 0, 0, 1, 10, 0, 0, 2, 4, 1, 0, 143>>,
    V2sig \o <<33, 17, 0, 0>>,
    V2sig \o <<17, 17, 0, 0>> }

\* the client sends a PROXY leader, at the start or close to it
SendLeader ==
    \E l \in Leaders : \E junk \in {0, 255} :
        /\ env.cur = << >>
        /\ env.reads < 2
        /\ Read(l, junk)
        /\ env' = [env EXCEPT !.reads = @ + 1, !.leaders = @ + 1]

\* the client has sent the chunks up to rest of a command
Sent(e, script, rest) ==
    [e EXCEPT !.reads = @ + 1, !.cur = rest,
              !.intended = IF rest = << >> THEN Append(@, script.whole) ELSE @,
              !.whole = IF rest = << >> THEN << >> ELSE script.whole]

\* the client starts a command
StartCommand ==
    \E script \in Scripts(97 + env.tags) : \E junk \in {0, 255} :
        /\ env.cur = << >>
        /\ imap.reader = 0
        /\ env.reads < MaxChunks
        /\ Read(Head(script.chunks), junk)
        /\ env' = Sent([env EXCEPT !.tags = @ + 1], script, Tail(script.chunks))

\* the client goes on with the command it has started
ContinueCommand ==
    /\ env.cur # << >>
    /\ env.reads < MaxChunks
    /\ Read(Head(env.cur), 0)
    /\ env' = Sent(env, [whole |-> env.whole], Tail(env.cur))

ParseNext ==
    \/ SendLeader
    \/ StartCommand
    \/ ContinueCommand
    \/ SendDone
    \/ QueryDone

ParseSpec == Init /\ [][ParseNext]_vars

\* s is a prefix of t
IsPrefix(s, t) == Len(s) <= Len(t) /\ SubSeq(t, 1, Len(s)) = s

\* what C7 says of the literals found: a literal within the limit is read,
\* after one continuation request unless it is a LITERAL+, and its octets
\* are as many as announced; a literal above the limit is not read, and
\* nothing is written for it
LiteralsFramed ==
    /\ \A k \in 1..Len(imap.lits) :
          LET e == imap.lits[k]
          IN  IF e.n <= LiteralSizeLimit
              THEN /\ e.took
                   /\ e.conts = (IF e.plus THEN 0 ELSE 1)
                   /\ e.read => Len(e.octets) = e.n
              ELSE ~e.took /\ e.conts = 0 /\ ~e.read
    /\ Conts(imap) = Cardinality({k \in 1..Len(imap.lits) :
                                     ~imap.lits[k].plus
                                     /\ imap.lits[k].n <= LiteralSizeLimit})

\* the command strings handed to addCommand are the commands of the client
\* in their order, the last of them possibly one that the client has not
\* sent all of (a literal above the limit ends the command string)
OneStringEach ==
    IsPrefix(imap.lines, env.intended \o
                 (IF env.whole = << >> THEN << >> ELSE <<env.whole>>))

\* C7 as stated: the literals are framed, and every command of the client,
\* with its literals, is handed to addCommand as one command string, when
\* every leader the client sent was removed as one.
C7_OneCommandString ==
    /\ LiteralsFramed
    /\ imap.leaders = env.leaders => OneStringEach

\* C7: the literals are framed, and every command of the client, with its
\* literals, is handed to addCommand as one command string, when every
\* leader the client sent was removed as one, unless a command that has
\* reserved the input was given a part of a command.
C7_OneCommandStringUnlessReserved ==
    /\ LiteralsFramed
    /\ imap.leaders = env.leaders /\ ~imap.diverted => OneStringEach

\* a command with two literals, each asked for, has been added as one
\* command string
C7_Witness ==
    /\ Len(imap.lits) >= 2
    /\ \A k \in 1..2 : imap.lits[k].read /\ imap.lits[k].conts = 1
    /\ Len(imap.lines) >= 1
    /\ imap.lines[1] = <<97>> \o <<32, 108, 111, 103, 105, 110, 32, 123, 49, 125, 13, 10, 117, 32, 123, 49, 125, 13, 10, 112>>
    /\ Len(imap.commands) >= 1

MaxLines == 3          \* Read events of a connection of LineSpec

\* n octets without a line feed
Fill(n) == [i \in 1..n |-> 120]

\* more than the limit, half of it, and a short line
LineChunks == {Fill(LineLimit + 1), Fill(LineLimit \div 2),
               <<97, 32, 110, 111, 111, 112, 13, 10>>}

ImapLine ==
    \E chunk \in LineChunks :
        /\ env.reads < MaxLines
        /\ Read(chunk, 0)
        /\ env' = [env EXCEPT !.reads = @ + 1]

SmtpLine ==
    \E chunk \in LineChunks :
        /\ smtp.connState = "Connected"
        /\ env.smtpReads < MaxLines
        /\ smtp' = SmtpReactRead([smtp EXCEPT !.rbuf = @ \o chunk])
        /\ env' = [env EXCEPT !.smtpReads = @ + 1]
        /\ UNCHANGED <<imap, now, inShutdown, client, spool>>

LineNext ==
    \/ ImapLine
    \/ SmtpLine

LineSpec == Init /\ [][LineNext]_vars

\* buf holds more than the limit, and no line feed within the limit
Overlong(buf) ==
    /\ Len(buf) > LineLimit
    /\ \A k \in 1..LineLimit : buf[k] # 10

\* C8 as stated: when the client of the IMAP server has sent more than 4096
\* octets of a line without its end, the connection is Closing.
C8_ImapLineTooLong ==
    Overlong(imap.rbuf) => imap.connState = "Closing"

\* C8: when the client of the SMTP server has sent more than 4096 octets of
\* a line without its end, the server has written the 500 line, the
\* connection is Closing, and no command is made of these octets.
C8_SmtpLineTooLong ==
    /\ Overlong(smtp.rbuf) =>
           /\ smtp.connState = "Closing"
           /\ smtp.wbuf[Len(smtp.wbuf)] = "500 Line too long"
    /\ \A k \in 1..Len(smtp.created) : Len(smtp.created[k]) < LineLimit

\* the SMTP server has answered a command, and then closed on a long line
C8_Witness ==
    /\ Overlong(smtp.rbuf)
    /\ smtp.connState = "Closing"
    /\ smtp.created # << >>


(***************************************************************************)
(* The SmtpClient with an owner that gives it DSNs and a smarthost that    *)
(* answers.                                                                *)
(***************************************************************************)
MaxGiven == 3          \* recipients of the DSNs given to one SmtpClient

\* reply lines of the smarthost
Reply250 == <<50, 53, 48, 32, 111, 107>>                        \* "250 ok"
Reply250Ext == <<50, 53, 48, 45>> \o
               <<69, 78, 72, 65, 78, 67, 69, 68, 83, 84, 65, 84,
                 85, 83, 67, 79, 68, 69, 83>>                   \* "250-ENHANCEDSTATUSCODES"
Reply354 == <<51, 53, 52, 32, 103, 111>>                        \* "354 go"
Reply450 == <<52, 53, 48, 32, 98, 117, 115, 121>>               \* "450 busy"
Reply550 == <<53, 53, 48, 32, 110, 111>>                        \* "550 no"
Reply550Enh == <<53, 53, 48, 32, 53, 46, 49, 46, 49, 32, 110, 111>>   \* "550 5.1.1 no"
Reply421 == <<52, 50, 49, 32, 98, 121, 101>>                    \* "421 bye"

Replies == {Reply250, Reply250Ext, Reply354, Reply450, Reply550, Reply550Enh,
            Reply421}

\* the recipients of a new DSN, as DeliveryAgent builds them from the rows
\* of delivery_recipients
DsnOf(actions) == [k \in 1..Len(actions) |-> NewRecipient(actions[k], << >>)]

DsnChoices ==
    {DsnOf(<<"Unknown">>), DsnOf(<<"Unknown", "Unknown">>), DsnOf(<<"Delayed", "Unknown">>)}

\* the recipients of the DSNs the client has been given
RECURSIVE Given_from(_, _)
Given_from(c, d) ==
    IF d > Len(c.dsns) THEN 0 ELSE Len(c.dsns[d]) + Given_from(c, d + 1)

Given(c) == Given_from(c, 1)

ClientStep(c) ==
    /\ client' = Written(c)
    /\ UNCHANGED <<imap, smtp, now, inShutdown, env, spool>>

\* the connection to the smarthost is made
ClientConnect ==
    /\ client.conn = "Connecting"
    /\ ClientStep(ClientReact(client, "Connect", << >>))

\* a reply line of the smarthost arrives
ClientRead ==
    /\ client.conn = "Connected"
    /\ \E line \in Replies : ClientStep(ClientReact(client, "Read", <<line>>))

\* the smarthost says nothing for too long
ClientTimeout ==
    /\ client.conn = "Connected"
    /\ ClientStep(ClientReact(client, "Timeout", << >>))

\* the smarthost refuses or closes the connection
ClientClose ==
    /\ client.conn # "Closing"
    /\ ClientStep([ClientReact(client, "Close", << >>) EXCEPT !.conn = "Closing"])

\* the owner gives the client a DSN
ClientGive ==
    /\ client.conn # "Closing"
    /\ ClientReady(client)
    /\ \E dsn \in DsnChoices :
           /\ Given(client) + Len(dsn) <= MaxGiven
           /\ ClientStep(ClientSend([client EXCEPT !.event = "Send", !.lines = << >>,
                                                   !.wrote = << >>, !.notified = 0],
                                     dsn))

\* the close timer fires
ClientQuit ==
    /\ client.conn = "Connected"
    /\ client.closeTimer
    /\ client.state = "Rset"
    /\ ClientStep(ClientLogout([client EXCEPT !.event = "Logout", !.lines = << >>,
                                              !.wrote = << >>, !.notified = 0,
                                              !.closeTimer = FALSE]))

ClientNext ==
    \/ ClientConnect
    \/ ClientRead
    \/ ClientTimeout
    \/ ClientClose
    \/ ClientGive
    \/ ClientQuit

ClientSpec == Init /\ [][ClientNext]_vars

\* this step is SmtpClient::react for a Read event
IsRead == client'.event = "Read" /\ client' # client

\* the RFC 3463 status of a reply line: the word after the reply code, if
\* it is made of three numbers with dots between them
StatusOf(line) ==
    LET l == Drop(line, 4)
        w == SubSeq(l, 1, IF Find(l, 32) < 0 THEN Len(l) ELSE Find(l, 32))
        dots == {k \in 1..Len(w) : w[k] = 46}
    IN  IF /\ Cardinality(dots) = 2
           /\ \A k \in 1..Len(w) : k \in dots \/ IsDigit(w[k])
           /\ 1 \notin dots /\ Len(w) \notin dots
           /\ \A k \in dots : k + 1 \notin dots
        THEN w ELSE << >>

\* the recipients other than it have the action and the status they had
OthersKept(it) ==
    \A d \in 1..Len(client.dsns) : \A i \in 1..Len(client.dsns[d]) :
        <<d, i>> # <<it.d, it.i>> =>
            /\ client'.dsns[d][i].action = client.dsns[d][i].action
            /\ client'.dsns[d][i].status = client.dsns[d][i].status

\* what a reply to RCPT TO does; the status is taken from the reply line if
\* fromReply says so and the line has one, and from the table otherwise
RcptReplied(fromReply) ==
    client.state = "RcptTo" /\ IsRead /\ Len(client'.lines) = 1 =>
        LET line == client'.lines[1]
            class == Number(Mid(line, 0, 3)).n \div 100
            it == client.rcptTo
            r == client'.dsns[it.d][it.i]
            status == IF fromReply /\ client.enhancedstatuscodes /\ StatusOf(line) # << >>
                      THEN StatusOf(line)
                      ELSE StatusTable(Number(Mid(line, 0, 3)).n, "RcptTo")
        IN  At(line, 3) = 32 /\ class \in {2, 4, 5} =>
                /\ OthersKept(it)
                /\ class = 2 => /\ r.action = "Unknown"
                                /\ client'.accepted = Append(client.accepted, it)
                /\ class = 4 => r.action = "Delayed" /\ r.status = status
                /\ class = 5 => r.action = "Failed" /\ r.status = status

\* C14: a reply to RCPT TO changes only the recipient it answers: 2xx adds
\* it to the accepted ones and leaves its action Unknown, 4xx makes it
\* Delayed and 5xx Failed, with the RFC 3463 status of the reply line when
\* the server has announced ENHANCEDSTATUSCODES and the status of the table
\* otherwise.
C14_RcptReply == [][RcptReplied(TRUE)]_vars

\* the same with the status of the table in every case
C14_RcptReplyTable == [][RcptReplied(FALSE)]_vars

\* the recipients that were answered 2xx
Accepted(c) == {<<c.accepted[k].d, c.accepted[k].i>> : k \in 1..Len(c.accepted)}

\* C15: a 2xx reply in state Body makes exactly the accepted recipients
\* that are still Unknown Relayed and every other Unknown recipient of the
\* DSN Delayed, leaves the others alone, sends RSET, leaves the client in
\* state Rset without a DSN, so that it is ready, and notifies the owner
\* once.
C15_BodyAccepted ==
    [][client.state = "Body" /\ IsRead /\ Len(client'.lines) = 1
       /\ At(client'.lines[1], 3) = 32
       /\ Number(Mid(client'.lines[1], 0, 3)).n \div 100 = 2 =>
           /\ \A d \in 1..Len(client.dsns) : \A i \in 1..Len(client.dsns[d]) :
                  LET old == client.dsns[d][i]
                      new == client'.dsns[d][i]
                  IN  IF old.action # "Unknown" THEN new = old
                      ELSE IF <<d, i>> \in Accepted(client)
                           THEN new.action = "Relayed"
                           ELSE d = client.dsn /\ new.action = "Delayed"
                                /\ new.status = Status450
           /\ client'.wrote = <<"rset">>
           /\ client'.state = "Rset"
           /\ client'.dsn = 0
           /\ ClientReady(client')
           /\ client'.notified = 1]_vars

\* the smarthost has taken a message for one recipient of a DSN and not
\* for the other, which it had refused
C15_Witness ==
    /\ client.event = "Read"
    /\ client.lines = <<Reply250>>
    /\ client.state = "Rset"
    /\ client.wrote = <<"rset">>
    /\ client.notified = 1
    /\ client.dsn = 0
    /\ \E d \in 1..Len(client.dsns) :
           /\ Len(client.dsns[d]) = 2
           /\ client.dsns[d][1].action = "Failed"
           /\ client.dsns[d][2].action = "Relayed"
           /\ client.dsns[d][2].first = "Unknown"

\* C16: a recipient whose action is not Unknown keeps its action and its
\* status: the client gives an action only to a recipient whose action is
\* Unknown, and no action goes back to Unknown.
C16_ActionIsFinal ==
    [][\A d \in 1..Len(client.dsns) : \A i \in 1..Len(client.dsns[d]) :
           client.dsns[d][i].action # "Unknown" =>
               /\ client'.dsns[d][i].action = client.dsns[d][i].action
               /\ client'.dsns[d][i].status = client.dsns[d][i].status]_vars

\* the client has finished a DSN one of whose recipients had been refused
\* before and another was Delayed from the start
C16_Witness ==
    /\ client.event = "Read"
    /\ client.state = "Rset"
    /\ client.dsn = 0
    /\ \E d \in 1..Len(client.dsns) :
           /\ Len(client.dsns[d]) = 2
           /\ client.dsns[d][1].first = "Delayed"
           /\ client.dsns[d][1].action = "Delayed"
           /\ client.dsns[d][2].action = "Relayed"
    /\ \E d \in 1..Len(client.dsns) : client.dsns[d][1].action = "Failed"

\* the DSNs for which a recipient was answered 2xx
AcceptedDsns == {client.accepted[k].d : k \in 1..Len(client.accepted)}

\* C13: DATA is sent for a DSN only when every recipient of that DSN which
\* was Unknown has been offered with RCPT TO and at least one recipient of
\* that same DSN was answered 2xx.
C13_DataOnlyWhenAccepted ==
    \A d \in client.data :
        /\ \A i \in 1..Len(client.dsns[d]) :
               client.dsns[d][i].first = "Unknown" => client.dsns[d][i].offered >= 1
        /\ d \in AcceptedDsns


(***************************************************************************)
(* The spool: the SpoolManager, its DeliveryAgents, the SmtpClient they    *)
(* share, the smarthost and the database.  Nothing happens in a process    *)
(* that hangs.                                                             *)
(***************************************************************************)
MaxMessages == 2       \* messages in the spool
MaxManagers == 1       \* SpoolManager objects created by setup()
MaxCommits == 2        \* calls of Transaction::commit by one agent

\* the senders of the messages: an address of type Normal, and the empty
\* address of a bounce
NormalSender == [type |-> "Normal", name |-> "s@example.org"]
BounceSender == [type |-> "Bounce", name |-> ""]

\* a fresh message, one to be delivered later, one that was tried before,
\* with a recipient that was delayed, and has expired, and one that cannot
\* be tried again yet
MessageChoices ==
    {[rcpts |-> <<[action |-> "Unknown", status |-> << >>]>>,
      wait |-> 0, retry |-> TRUE, expired |-> FALSE, sender |-> NormalSender,
      lock |-> 0],
     [rcpts |-> <<[action |-> "Unknown", status |-> << >>]>>,
      wait |-> 1800, retry |-> TRUE, expired |-> FALSE, sender |-> NormalSender,
      lock |-> 0],
     [rcpts |-> <<[action |-> "Delayed", status |-> Status450],
                  [action |-> "Unknown", status |-> << >>]>>,
      wait |-> 0, retry |-> TRUE, expired |-> TRUE, sender |-> BounceSender,
      lock |-> 0],
     [rcpts |-> <<[action |-> "Delayed", status |-> Status450]>>,
      wait |-> 0, retry |-> FALSE, expired |-> FALSE, sender |-> NormalSender,
      lock |-> 0]}

\* the replies of the smarthost to the agents' client
SpoolReplies == {Reply250, Reply354, Reply550}

SpoolStep(r) ==
    /\ ~spool.hung
    /\ spool' = r.s
    /\ client' = Written(r.c)
    /\ UNCHANGED <<imap, smtp, now, inShutdown, env>>

\* n seconds pass: what the queue query computes as delay gets smaller
Elapse(s, n) ==
    [s EXCEPT !.db = [m \in 1..Len(s.db) |->
                         [s.db[m] EXCEPT !.wait = IF @ > n THEN @ - n ELSE 0]]]

\* SpoolManager::setup is called
Setup ==
    /\ ~spool.sm
    /\ spool.made < MaxManagers
    /\ SpoolStep([s |-> SpoolSetup(spool), c |-> client])

\* the database is idle and notifies the SpoolManager
DatabaseIdle ==
    /\ spool.idle
    /\ SpoolStep([s |-> SpoolExecute([spool EXCEPT !.idle = FALSE]), c |-> client])

\* a message is added to the spool and deliveries_updated is signalled
NewMessage ==
    /\ Len(spool.db) < MaxMessages
    /\ \E m \in MessageChoices :
           LET added == [spool EXCEPT !.db = Append(@, m)]
           IN  SpoolStep([s |-> IF spool.sm THEN DeliverNewMessage(added) ELSE added,
                          c |-> client])

\* the timer of the SpoolManager fires
SpoolTimer ==
    /\ spool.t # 0
    /\ SpoolStep([s |-> SpoolExecute([Elapse(spool, spool.t) EXCEPT !.t = 0]),
                  c |-> client])

\* the queue query of the SpoolManager is done
QueryCompleted ==
    /\ spool.q = "running"
    /\ SpoolStep([s |-> SpoolExecute([spool EXCEPT !.q = "done"]), c |-> client])

\* the timer of a new agent fires
AgentTimer ==
    \E i \in 1..Len(spool.agents) :
        /\ spool.agents[i].t = "none"
        /\ SpoolStep(AgentExecute(spool, client, i))

\* the locking query of an agent is done: the delivery is locked
AgentLocked ==
    \E i \in 1..Len(spool.agents) :
        /\ spool.agents[i].qm = "running"
        /\ spool.db[spool.agents[i].message].lock = 0
        /\ SpoolStep(AgentExecute(
               [spool EXCEPT !.agents[i].qm = "done",
                             !.db[spool.agents[i].message].lock = i], client, i))

\* the message and the addresses of an agent have been fetched
AgentFetched ==
    \E i \in 1..Len(spool.agents) :
        /\ spool.agents[i].fetch = "running"
        /\ SpoolStep(AgentExecute([spool EXCEPT !.agents[i].fetch = "done"], client, i))

\* the client has notified the agent and the DSN is no longer pending
AgentNotified ==
    \E i \in 1..Len(spool.agents) :
        /\ spool.agents[i].dsn # 0
        /\ ~spool.agents[i].update
        /\ spool.agents[i].injector.state # "running"
        /\ ~DeliveriesPending(client.dsns[spool.agents[i].dsn])
        /\ SpoolStep(AgentExecute(spool, client, i))

\* the bounce of an agent has been injected
AgentInjected ==
    \E i \in 1..Len(spool.agents) :
        /\ spool.agents[i].injector.state = "running"
        /\ SpoolStep(AgentExecute([spool EXCEPT !.agents[i].injector.state = "done"],
                                  client, i))

\* the transaction of an agent has been committed, or has failed
AgentCommitted ==
    \E i \in 1..Len(spool.agents) : \E result \in {"done", "failed"} :
        /\ spool.agents[i].t = "committing"
        /\ SpoolStep(AgentExecute(
               [spool EXCEPT !.agents[i].t = result,
                             !.db[spool.agents[i].message].lock = 0], client, i))

\* execute() of an agent is called once more while its transaction is not
\* done: by one of the updates when it is done, or, while the commit is
\* pending, by any query, fetcher or client that still has the agent as its
\* owner
AgentReentered ==
    \E i \in 1..Len(spool.agents) :
        /\ \/ spool.agents[i].t = "open" /\ spool.agents[i].update
           \/ spool.agents[i].t = "committing"
        /\ spool.agents[i].commits < MaxCommits
        /\ SpoolStep(AgentExecute(spool, client, i))

\* an agent has made or found the client
HasClient == \E i \in 1..Len(spool.agents) : spool.agents[i].fetch # "none"

\* the connection of the agents' client is made
SmarthostConnect ==
    /\ HasClient
    /\ client.conn = "Connecting"
    /\ SpoolStep([s |-> spool, c |-> ClientReact(client, "Connect", << >>)])

\* the smarthost answers the agents' client
SmarthostReply ==
    /\ HasClient
    /\ client.conn = "Connected"
    /\ \E line \in SpoolReplies :
           SpoolStep([s |-> spool, c |-> ClientReact(client, "Read", <<line>>)])

SpoolNext ==
    \/ Setup
    \/ DatabaseIdle
    \/ NewMessage
    \/ SpoolTimer
    \/ QueryCompleted
    \/ AgentTimer
    \/ AgentLocked
    \/ AgentFetched
    \/ AgentNotified
    \/ AgentInjected
    \/ AgentCommitted
    \/ AgentReentered
    \/ SmarthostConnect
    \/ SmarthostReply

SpoolSpec == Init /\ [][SpoolNext]_vars


\* C17: a recipient that is Delayed is tried again: when the client has
\* gone through the recipients of a DSN made at a later attempt, it has
\* sent RCPT TO for every recipient of that DSN that was Delayed.
C17_DelayedRetried ==
    \A d \in client.walked : \A i \in 1..Len(client.dsns[d]) :
        client.dsns[d][i].first = "Delayed" => client.dsns[d][i].offered >= 1

\* the least delay of the rows of a queue run
MinDelay(s, rows) == Least({s.db[rows[k]].wait : k \in 1..Len(rows)})

\* C18: a queue run whose rows all have a delay above 0 creates no agent and
\* leaves the timer armed for the least delay of the rows, or for 900
\* seconds if that is less and an agent is still working.
C18_TimerArmed ==
    [][spool'.run.n # spool.run.n
       /\ (\A k \in 1..Len(spool'.run.rows) : spool.db[spool'.run.rows[k]].wait > 0) =>
           /\ Len(spool'.agents) = Len(spool.agents)
           /\ spool'.t = IF \E j \in 1..Len(spool.agents) : Working(spool.agents[j])
                         THEN Min(900, MinDelay(spool, spool'.run.rows))
                         ELSE MinDelay(spool, spool'.run.rows)]_vars

\* C19: while a recipient of a delivery is Unknown and the spool has not
\* been shut down, an agent is working on the delivery or holds it locked,
\* or a queue run is in progress or about to start, or the timer of the
\* SpoolManager is armed.
C19_UnknownIsCovered ==
    \A m \in 1..Len(spool.db) :
        /\ spool.made > 0
        /\ ~spool.shutdown
        /\ \E i \in 1..Len(spool.db[m].rcpts) : spool.db[m].rcpts[i].action = "Unknown"
        => \/ spool.db[m].lock # 0
           \/ \E j \in 1..Len(spool.agents) :
                  spool.agents[j].message = m /\ Working(spool.agents[j])
           \/ spool.q # "none"
           \/ spool.idle
           \/ spool.t # 0

\* C20: once SpoolManager::shutdown() has been called no DeliveryAgent and
\* no SpoolManager is created, and shutdown() is called whenever the
\* transaction of a DeliveryAgent has failed.
C20_NoNewAfterShutdown ==
    [][/\ spool.shutdown =>
           /\ Len(spool'.agents) = Len(spool.agents)
           /\ spool'.made = spool.made
       /\ \A j \in 1..Len(spool.agents) :
              spool.agents[j].t # "failed" /\ spool'.agents[j].t = "failed"
              => spool'.shutdown]_vars

\* the part of C20 about the agents alone
C20_NoAgentAfterShutdown ==
    [][spool.shutdown => Len(spool'.agents) = Len(spool.agents)]_vars


(***************************************************************************)
(* The queue runs alone: the SpoolManager, the signal, the timers and the  *)
(* agents from their start to the end of their transaction.                *)
(***************************************************************************)
\* SpoolManager::setup is called, once: the events of a queue are the runs,
\* the signals, the timers and the completions
SetupOnce ==
    /\ spool.made = 0
    /\ SpoolStep([s |-> SpoolSetup(spool), c |-> client])

QueueNext ==
    \/ SetupOnce
    \/ DatabaseIdle
    \/ NewMessage
    \/ SpoolTimer
    \/ QueryCompleted
    \/ AgentTimer
    \/ AgentLocked
    \/ AgentCommitted

QueueSpec == Init /\ [][QueueNext]_vars

\* C21: of the agents that a SpoolManager has made for a message at most
\* one has not finished.
C21_OneAgentPerMessage ==
    \A j \in 1..Len(spool.agents) : \A k \in 1..Len(spool.agents) :
        /\ j < k
        /\ spool.agents[j].message = spool.agents[k].message
        => ~(Working(spool.agents[j]) /\ Working(spool.agents[k]))

\* a queue run is in progress that has left out a message which is due,
\* because an agent is working on it, and an earlier agent for the message
\* has finished
C21_Witness ==
    /\ spool.q = "running"
    /\ \E j \in 1..Len(spool.agents) : \E k \in 1..Len(spool.agents) :
           /\ j < k
           /\ spool.agents[j].message = spool.agents[k].message
           /\ ~Working(spool.agents[j])
           /\ Working(spool.agents[k])
           /\ spool.agents[k].message \in spool.have
           /\ spool.agents[k].message \in Spooled(spool)
           /\ spool.db[spool.agents[k].message].wait = 0

\* C29: a signal that arrives while the queue query is outstanding starts
\* no query and leaves the running one alone, it only sets again; when a
\* queue run with again set completes, the timer is armed for 1 second; when
\* that timer fires a run starts; and a signal that arrives while no run is
\* in progress arms the timer for 1 second.
C29_SignalDuringRun ==
    [][/\ Len(spool'.db) > Len(spool.db) /\ spool.sm /\ spool.q # "none"
          => /\ spool'.q = spool.q
             /\ spool'.have = spool.have
             /\ spool'.run = spool.run
             /\ spool'.t = spool.t
             /\ spool'.again
       /\ Len(spool'.db) > Len(spool.db) /\ spool.sm /\ spool.q = "none"
          => spool'.q = "none" /\ spool'.t = 1
       /\ spool.q = "running" /\ spool'.q = "none" /\ spool.again
          /\ spool'.made = spool.made
          => spool'.t = 1
       /\ spool.t = 1 /\ spool'.t # 1 /\ spool'.shutdown = spool.shutdown
          /\ spool'.made = spool.made
          => spool'.q = "running"]_vars

\* a signal has arrived while the query of a queue run was outstanding
C29_Witness ==
    /\ spool.sm
    /\ spool.q = "running"
    /\ spool.again
    /\ spool.run.n >= 1


\* C22: an agent calls Transaction::commit at most once.
C22_CommitOnce ==
    \A i \in 1..Len(spool.agents) : spool.agents[i].commits <= 1

\* DeliveryAgent::delivered
Delivered(a) == a.senders = a.sent

\* the deliveries rows of the message of an agent whose DSN ended allOk
RowsAllOk(a) ==
    IF a.dsn # 0 /\ ~DeliveriesPending(client.dsns[a.dsn]) /\ AllOk(client.dsns[a.dsn])
    THEN 1 ELSE 0

\* C23: d->senders counts the deliveries rows read and d->sent the rows
\* whose DSN ended allOk, each once, so that delivered() is true exactly when
\* every row of the message was attempted and ended allOk.
C23_DeliveredIffAllOk ==
    \A i \in 1..Len(spool.agents) :
        LET a == spool.agents[i]
        IN  /\ a.senders = (IF a.qm = "done" THEN 1 ELSE 0)
            /\ a.sent <= RowsAllOk(a)
            /\ a.update => a.sent = RowsAllOk(a)
            /\ a.update => (Delivered(a) <=> RowsAllOk(a) = a.senders)
            /\ a.qm = "done" /\ ~spool.db[a.message].retry => ~Delivered(a)

\* C24: when an agent processes a delivery that has expired, no recipient of
\* it that was Unknown is offered to the smarthost; each is Failed, and is
\* written back as Failed.
C24_ExpiredFailed ==
    \A i \in 1..Len(spool.agents) :
        LET a == spool.agents[i]
        IN  a.dsn # 0 /\ spool.db[a.message].expired =>
                \A k \in 1..Len(client.dsns[a.dsn]) :
                    client.dsns[a.dsn][k].first = "Unknown" =>
                        /\ client.dsns[a.dsn][k].offered = 0
                        /\ client.dsns[a.dsn][k].action = "Failed"
                        /\ a.update => \E w \in 1..Len(a.writes) :
                               /\ a.writes[w].recipient = k
                               /\ a.writes[w].action = "Failed"

\* C35: every call of DeliveryAgent::execute returns, and the deliveries
\* row of the agent is processed at most once: the agent has counted it as
\* sent at most once, and once its updates are enqueued it is on its way to
\* the commit.
C35_ExecuteReturns ==
    \A i \in 1..Len(spool.agents) :
        LET a == spool.agents[i]
        IN  /\ ~a.spinning
            /\ a.sent <= 1
            /\ a.update /\ a.injector.state # "running" =>
                   a.t \in {"committing", "done", "failed"}


(***************************************************************************)
(* The bounces: one SpoolManager, messages that are due, their agents, the *)
(* client and the smarthost.  /archiveopteryx/spool exists or not.         *)
(***************************************************************************)
MaxBounced == 1        \* messages in the spool

\* SpoolManager::setup is called
SetupBox ==
    /\ spool.made = 0
    /\ \E box \in BOOLEAN :
           SpoolStep([s |-> SpoolSetup([spool EXCEPT !.box = box]), c |-> client])

\* a message that is due is added to the spool and deliveries_updated is
\* signalled
NewBounced ==
    /\ Len(spool.db) < MaxBounced
    /\ \E m \in {x \in MessageChoices : x.wait = 0} :
           LET added == [spool EXCEPT !.db = Append(@, m)]
           IN  SpoolStep([s |-> IF spool.sm THEN DeliverNewMessage(added) ELSE added,
                          c |-> client])

BounceNext ==
    \/ SetupBox
    \/ DatabaseIdle
    \/ NewBounced
    \/ SpoolTimer
    \/ QueryCompleted
    \/ AgentTimer
    \/ AgentLocked
    \/ AgentFetched
    \/ AgentNotified
    \/ AgentInjected
    \/ AgentCommitted
    \/ AgentReentered
    \/ SmarthostConnect
    \/ SmarthostReply

BounceSpec == Init /\ [][BounceNext]_vars

\* a bounce is due for the DSN of the agent a
BounceDue(s, c, a) ==
    /\ ~AllOk(c.dsns[a.dsn])
    /\ s.db[a.message].sender.type = "Normal"
    /\ s.box

\* C25: an agent makes an injector only when its DSN is resolved and not
\* allOk, the sender is a Normal address and the spool mailbox exists; it
\* makes one at most; the bounce goes to /archiveopteryx/spool with an empty
\* sender and the sender of the message as its only address; and the
\* updates are enqueued only when the bounce, if one is due, is injected.
C25_BounceThenUpdates ==
    [][\A i \in 1..Len(spool.agents) :
          LET a == spool.agents[i]
              b == spool'.agents[i]
          IN  /\ b.bounces <= 1
              /\ b.bounces > a.bounces =>
                    /\ b.dsn # 0
                    /\ ~DeliveriesPending(client'.dsns[b.dsn])
                    /\ BounceDue(spool', client', b)
                    /\ ~a.update
                    /\ b.injector = [sender |-> "",
                                     addresses |-> <<spool.db[a.message].sender>>,
                                     mailbox |-> "/archiveopteryx/spool",
                                     state |-> "running"]
              /\ b.update /\ ~a.update =>
                    /\ ~DeliveriesPending(client'.dsns[b.dsn])
                    /\ b.injector.state \in {"none", "done"}
                    /\ b.bounces = (IF BounceDue(spool', client', b) THEN 1 ELSE 0)
                    /\ b.injector.state = "done" <=> BounceDue(spool', client', b)]_vars

\* the updates of an agent are enqueued after its bounce was injected, and
\* those of another without a bounce
C25_Witness ==
    /\ \E i \in 1..Len(spool.agents) :
           /\ spool.agents[i].update
           /\ spool.agents[i].injector.state = "done"
           /\ spool.agents[i].bounces = 1


(***************************************************************************)
(* The body on the wire: the client makes the dotted form of the text of a *)
(* message.                                                                *)
(***************************************************************************)
MaxBody == 4           \* octets of a message

\* the texts of at most n octets: CR, LF, dots and letters
RECURSIVE Bodies(_)
Bodies(n) ==
    IF n = 0 THEN {<< >>}
    ELSE LET shorter == Bodies(n - 1)
         IN  shorter \cup {Append(b, c) : b \in shorter, c \in {13, 10, 46, 97}}

\* the client makes the dotted form of a message
DotBody ==
    /\ client.dotted = << >>
    /\ \E body \in Bodies(MaxBody) :
           client' = [client EXCEPT !.body = body, !.dotted = Dotted(body)]
    /\ UNCHANGED <<imap, smtp, now, inShutdown, env, spool>>

\* the dotted form has been written: d->dotted.truncate()
TruncateBody ==
    /\ client.dotted # << >>
    /\ client' = [client EXCEPT !.dotted = << >>]
    /\ UNCHANGED <<imap, smtp, now, inShutdown, env, spool>>

DottedNext ==
    \/ DotBody
    \/ TruncateBody

DottedSpec == Init /\ [][DottedNext]_vars

\* every CR of s is followed by LF and every LF follows a CR
NoBare(s) ==
    \A k \in 1..Len(s) :
        /\ s[k] = 13 => k < Len(s) /\ s[k + 1] = 10
        /\ s[k] = 10 => k > 1 /\ s[k - 1] = 13

EndsWith(s, e) == Len(s) >= Len(e) /\ SubSeq(s, Len(s) - Len(e) + 1, Len(s)) = e

\* one leading dot is removed from every line of w that starts with a dot
RECURSIVE Undot(_, _)
Undot(w, sol) ==
    IF w = << >> THEN << >>
    ELSE IF sol /\ Head(w) = 46 THEN Undot(Tail(w), FALSE)
    ELSE <<Head(w)>> \o Undot(Tail(w), Head(w) = 10)

MaxMemory == 5         \* memory-limit
MaxSizes == 8          \* sizes the smarthost announces, in steps of 100000

\* EString::fn( n ): n in decimal
RECURSIVE Format(_)
Format(n) == IF n < 10 THEN <<48 + n>> ELSE Format(n \div 10) \o <<48 + (n % 10)>>

\* "250-SIZE ", "250 SIZE " and "250-size  "
SizePrefixes ==
    {<<50, 53, 48, 45, 83, 73, 90, 69, 32>>,
     <<50, 53, 48, 32, 83, 73, 90, 69, 32>>,
     <<50, 53, 48, 45, 115, 105, 122, 101, 32, 32>>}

\* memory-limit is configured
SetMemoryLimit ==
    /\ \E m \in 0..MaxMemory :
           /\ m # env.memoryLimit
           /\ env' = [env EXCEPT !.memoryLimit = m]
    /\ UNCHANGED <<imap, smtp, now, inShutdown, client, spool>>

\* the smarthost sends its banner
SmarthostBanner ==
    /\ client.conn = "Connected"
    /\ client.state = "Connected"
    /\ ClientStep(ClientReact(client, "Read", <<Reply250>>))

\* the smarthost announces SIZE in its reply to EHLO
SmarthostSize ==
    /\ client.conn = "Connected"
    /\ client.state = "Hello"
    /\ \E k \in 0..MaxSizes : \E prefix \in SizePrefixes :
           /\ client' = Written(ClientReact(client, "Read",
                                             <<prefix \o Format(k * 100000)>>))
           /\ env' = [env EXCEPT !.advertised = k * 100000]
    /\ UNCHANGED <<imap, smtp, now, inShutdown, spool>>

SizeNext ==
    \/ ClientConnect
    \/ SmarthostBanner
    \/ SmarthostSize
    \/ SetMemoryLimit

SizeSpec == Init /\ [][SizeNext]_vars

\* C27 as stated: observedSize() is the greater of 150000 times memory-limit
\* and the size the smarthost has announced.
C27_ObservedSizeMax ==
    ObservedSize(client, env.memoryLimit) =
        (IF 150000 * env.memoryLimit > env.advertised
            THEN 150000 * env.memoryLimit ELSE env.advertised)

\* C27: observedSize() is the lesser of 150000 times memory-limit and the
\* size the smarthost has announced last, which is 0 if it has announced
\* none.
C27_ObservedSizeMin ==
    /\ client.observedSize = env.advertised
    /\ ObservedSize(client, env.memoryLimit) = Min(150000 * env.memoryLimit, env.advertised)

\* the smarthost has announced more than 150000 times memory-limit
C27_Witness ==
    /\ client.size
    /\ env.memoryLimit > 0
    /\ env.advertised > 150000 * env.memoryLimit
    /\ ObservedSize(client, env.memoryLimit) = 150000 * env.memoryLimit


(***************************************************************************)
(* The user without an inbox.  The wake-up timers fire again and again, so *)
(* the clock is not bounded here: the program reads it only to compare it  *)
(* with the times it has stored, and when seconds have passed the stored   *)
(* times are counted from the new present instead.                         *)
(***************************************************************************)
\* time t after d seconds have passed, counted from the new present; a
\* time that is keep seconds old or older compares as any other such time
Rebased(t, d, keep) ==
    IF t - d <= now - keep THEN Min(t, now - keep) ELSE t - d

\* the session after d seconds have passed
Later(s, d) ==
    [s EXCEPT !.timers = {t - d : t \in @},
              !.natTimers = {t - d : t \in @},
              !.lastBadTime = Rebased(@, d, 16),
              !.nextOkTime = Rebased(@, d, 0),
              !.pass = [@ EXCEPT !.at = @ - d, !.timer = @ - d,
                                 !.last = Rebased(@, d, 16)]]

\* the event loop has no timer to fire, and sleeps until the first is due
TimerDue ==
    /\ imap.connState = "Connected"
    /\ imap.timers # {}
    /\ \A t \in imap.timers : t > now
    /\ imap' = Later(imap, Least(imap.timers) - now)
    /\ UNCHANGED <<smtp, now, inShutdown, env, client, spool>>

InboxNext ==
    \/ SendOpening
    \/ SendCommand
    \/ QueryDone
    \/ TimerDue
    \/ BadBouncer

\* a BadBouncer timer is due: BadBouncer is enabled, and it changes the
\* timers
TimerIsDue == \E t \in imap.timers : t <= now

\* a command waits for the database: QueryDone is enabled, and it changes
\* the command
ResultAwaited ==
    \E k \in 1..Len(imap.commands) : AwaitsResult(imap, imap.commands[k])

\* Time passes, due timers fire and the database answers.  The weak
\* fairness of BadBouncer and of QueryDone is written with the state
\* predicates that say when they are enabled.
InboxSpec ==
    /\ Init
    /\ [][InboxNext]_vars
    /\ WF_vars(TimerDue)
    /\ ([]<>(~TimerIsDue) \/ []<><<BadBouncer>>_vars)
    /\ ([]<>(~ResultAwaited) \/ []<><<QueryDone>>_vars)

\* command id is in the queue of a user without an inbox, and not started
HeldForInbox(id) ==
    /\ imap.user = "noinbox"
    /\ HasCmd(imap, id)
    /\ CmdOf(imap, id).state = "Unparsed"

\* command id has been started
Dispatched(id) ==
    /\ HasCmd(imap, id) => CmdOf(imap, id).state \in {"Executing", "Finished", "Retired"}
    /\ ~HasCmd(imap, id) => id < imap.nextId

\* the tagged response of command id has been written
Answered(id) ==
    \E i \in 1..Len(imap.wbuf) :
        imap.wbuf[i].k = "tagged" /\ imap.wbuf[i].tag = <<96 + id>>

\* C28: a command in the queue of a user without an inbox is held while a
\* wake-up is armed that is at least 4 seconds after the pass that held
\* it, and it is started in the end and gets its tagged response.
C28_NoInboxDispatched ==
    /\ [](\A id \in 1..(MaxReads + 3) :
              HeldForInbox(id) /\ imap.timers # {} => imap.pass.timer >= imap.pass.at + 4)
    /\ \A id \in 1..(MaxReads + 3) : HeldForInbox(id) ~> Dispatched(id)
    /\ \A id \in 1..(MaxReads + 3) : HeldForInbox(id) ~> Answered(id)


(***************************************************************************)
(* Calls that come in while a pass is running: unblockCommands while       *)
(* runCommands runs, and send() from the owner that SmtpClient::finish     *)
(* notifies.  The IMAP connection and the SmtpClient share no state, so    *)
(* each is explored while the other is as it was made.                     *)
(***************************************************************************)
\* the smarthost takes the message or refuses it
LatchReplies == {Reply250, Reply354, Reply550}

\* the owner of the client has one more DSN, which it sends as soon as it
\* is notified
OwnerEager ==
    /\ imap = ImapInit
    /\ client.eager = << >>
    /\ \E dsn \in DsnChoices : client' = [client EXCEPT !.eager = dsn]
    /\ UNCHANGED <<imap, smtp, now, inShutdown, env, spool>>

LatchConnect == imap = ImapInit /\ ClientConnect

LatchGive == imap = ImapInit /\ ClientGive

LatchRead ==
    /\ imap = ImapInit
    /\ client.conn = "Connected"
    /\ \E line \in LatchReplies : ClientStep(ClientReact(client, "Read", <<line>>))

LatchTimeout == imap = ImapInit /\ ClientTimeout

LatchClose == imap = ImapInit /\ ClientClose

LatchOpening == client = ClientInit /\ SendOpening

LatchCommand == client = ClientInit /\ SendCommand

LatchQuery == client = ClientInit /\ QueryDone

LatchFetch == client = ClientInit /\ ImplicitFetch

LatchNext ==
    \/ OwnerEager
    \/ LatchConnect
    \/ LatchGive
    \/ LatchRead
    \/ LatchTimeout
    \/ LatchClose
    \/ LatchOpening
    \/ LatchCommand
    \/ LatchQuery
    \/ LatchFetch

LatchSpec == Init /\ [][LatchNext]_vars

\* the client without the eager owner
Quiet(c) == [c EXCEPT !.eager = << >>, !.asked = 0]

\* what the event of this step makes of the client whose owner only
\* listens
QuietStep ==
    LET r == ClientReact(Quiet(client), client'.event, client'.lines)
    IN  Written(IF client'.event = "Close" THEN [r EXCEPT !.conn = "Closing"] ELSE r)

\* the owner has called send() from inside this step
AskedInside == client'.asked > client.asked

\* C30 as stated: a call that comes in while a pass is running starts no
\* pass of its own, and the running pass does one more iteration for it:
\* runCommands iterates again after unblockCommands was called, and the
\* client takes up the DSN of a send() that was called from inside its
\* reply handling.
C30_AgainFlag ==
    [][/\ ~imap'.runningCommands
       /\ imap'.asked > 0 => imap'.iter > imap'.asked
       /\ AskedInside => Len(client'.dsns) > Len(client.dsns)]_vars

\* C30: no pass is left running.  runCommands iterates once more after an
\* iteration in which unblockCommands was called, unless that iteration
\* ends the pass by arming the wake-up timer.  SmtpClient has no such
\* flag: a send() that its owner calls from inside finish() is refused and
\* changes nothing, and the client ends the step without a DSN and without
\* an owner, as if send() had not been called.
C30_Coalesced ==
    [][/\ ~imap'.runningCommands
       /\ imap'.asked > 0 => imap'.iter > imap'.asked \/ imap'.pass.held
       /\ AskedInside =>
              /\ Quiet(client') = QuietStep
              /\ client'.dsn = 0
              /\ ~client'.owner
              /\ Len(client'.dsns) = Len(client.dsns)]_vars

\* the owner has called send() while the client finished a DSN on a reply
\* of the smarthost, and the client is ready, with nothing to send
C30_Witness ==
    /\ client.asked > 0
    /\ client.event = "Read"
    /\ client.notified > 0
    /\ ClientReady(client)
    /\ client.dsn = 0


(***************************************************************************)
(* The NAT keepalive.  The client logs in with tags of four octets, as     *)
(* Outlook does, or with other tags; the clock goes from timer to timer.   *)
(***************************************************************************)
MaxNat == 130          \* seconds the clock of NatSpec advances

TagLine(tag, body) == tag \o <<32>> \o body \o <<13, 10>>

\* "a001 login u p" and "a002 select m"; the same with a dot in a tag; and
\* the opening with tags of one octet
NatOpenings ==
    {TagLine(<<97, 48, 48, 49>>, LoginBody) \o TagLine(<<97, 48, 48, 50>>, SelectBody),
     TagLine(<<97, 48, 48, 49>>, LoginBody) \o TagLine(<<97, 46, 48, 50>>, SelectBody),
     Opening}

NatOpening ==
    /\ env.tags = 0
    /\ env.reads = 0
    /\ \E o \in NatOpenings : Read(o, 0)
    /\ env' = [env EXCEPT !.tags = 2]

NatSend == Send(Single({NoopBody, IdleBody, LogoutBody}))

\* a NatDefeater timer fires
NatDefeater ==
    \E t \in imap.natTimers :
        /\ t <= now
        /\ imap' = DefeatNat([imap EXCEPT !.natTimers = @ \ {t}])
        /\ UNCHANGED <<smtp, now, inShutdown, env, client, spool>>

\* no timer is due, and the time of the next timer comes
NatWait ==
    LET later == {t \in imap.natTimers \cup imap.timers : t > now}
    IN  /\ later # {}
        /\ \A t \in imap.natTimers \cup imap.timers : t > now
        /\ Least(later) <= Epoch + MaxNat
        /\ now' = Least(later)
        /\ UNCHANGED <<imap, smtp, inShutdown, env, client, spool>>

NatNext ==
    \/ NatOpening
    \/ NatSend
    \/ SendDone
    \/ QueryDone
    \/ NatDefeater
    \/ NatWait
    \/ BadBouncer

NatSpec == Init /\ [][NatNext]_vars

\* the keepalive lines written
Oks(w) == Len(SelectSeq(w, LAMBDA l : l.txt = "OK NAT keepalive"))

\* this step writes a keepalive line
WritesOk == Oks(imap'.wbuf) > Oks(imap.wbuf)

\* a command other than IDLE is in the queue and not Retired
Busy(s) ==
    \E k \in 1..Len(s.commands) :
        s.commands[k].state # "Retired" /\ s.commands[k].name # "idle"

\* what holds of every keepalive line: it is written while the session is
\* connected, Authenticated or Selected and has no command but IDLE, and
\* the next is due 117 seconds later
OkWhenIdle ==
    WritesOk =>
        /\ imap.connState = "Connected"
        /\ imap.state \in {"Authenticated", "Selected"}
        /\ ~Busy(imap)
        /\ \A k \in 1..Len(imap.commands) :
               imap.commands[k].state \in {"Retired", "Executing"}
        /\ now >= imap.nextOkTime
        /\ imap'.nextOkTime = now + 117
        /\ now + 117 \in imap'.natTimers

\* C31 as stated: a keepalive line is written only while the session is
\* idle, connected and Authenticated or Selected, and two keepalive lines
\* are never less than 117 seconds apart.
C31_KeepaliveApart ==
    [][/\ OkWhenIdle
       /\ WritesOk /\ imap.okAt # 0 => now - imap.okAt >= 117]_vars

\* C31: a keepalive line is written only while the session is idle,
\* connected and Authenticated or Selected, and it is 117 seconds or more
\* after the one before unless the queue has become empty in between,
\* which sets up a keepalive 6 seconds later.
C31_KeepaliveWhenIdle ==
    [][/\ OkWhenIdle
       /\ WritesOk /\ imap.okAt # 0 /\ ~imap.restarted => now - imap.okAt >= 117]_vars

\* two keepalive lines have been written 117 seconds apart, while the
\* client was in IDLE
C31_Witness ==
    /\ Oks(imap.wbuf) = 2
    /\ imap.okAt = now
    /\ imap.nextOkTime = now + 117
    /\ imap.reader # 0
    /\ imap.state = "Selected"


(***************************************************************************)
(* The SmtpClient and a slow smarthost: the socket takes the write buffer  *)
(* bit by bit, and a read may bring two reply lines.                       *)
(***************************************************************************)
MaxBuffer == 8         \* octets in the write buffer when an event comes
MaxSlow == 1           \* DSNs given to the client of the slow smarthost

SlowReplies == {Reply250, Reply354, Reply450, Reply421}

SlowStep(c) ==
    /\ client' = c
    /\ UNCHANGED <<imap, smtp, now, inShutdown, env, spool>>

\* the owner gives the client a DSN
SlowGive ==
    /\ client.conn # "Closing"
    /\ ClientReady(client)
    /\ client.wsize <= MaxBuffer
    /\ Len(client.dsns) < MaxSlow
    /\ SlowStep(ClientSend([client EXCEPT !.event = "Send", !.lines = << >>,
                                          !.wrote = << >>, !.notified = 0],
                           DsnOf(<<"Unknown", "Unknown">>)))

\* one or two reply lines of the smarthost arrive
SlowRead ==
    /\ client.conn = "Connected"
    /\ client.wsize <= MaxBuffer
    /\ \E lines \in {<<a>> : a \in SlowReplies}
                    \cup {<<a, b>> : a \in {Reply250, Reply421}, b \in {Reply450, Reply421}} :
           SlowStep(ClientReact(client, "Read", lines))

\* the socket takes all of the write buffer, or all but one octet
SlowWrite ==
    /\ client.conn = "Connected"
    /\ client.wsize > 1
    /\ \E left \in {0, 1} :
           SlowStep([client EXCEPT !.wsize = left, !.event = "Write"])

\* the smarthost says nothing for too long
SlowTimeout ==
    /\ client.conn = "Connected"
    /\ SlowStep(ClientReact(client, "Timeout", << >>))

\* the smarthost refuses or closes the connection
SlowClose ==
    /\ client.conn # "Closing"
    /\ SlowStep([ClientReact(client, "Close", << >>) EXCEPT !.conn = "Closing"])

SlowNext ==
    \/ ClientConnect
    \/ SlowGive
    \/ SlowRead
    \/ SlowWrite
    \/ SlowTimeout
    \/ SlowClose

SlowSpec == Init /\ [][SlowNext]_vars

\* a reply line with the code 421 and a space after it
Final421(line) == Number(Mid(line, 0, 3)).n = 421 /\ At(line, 3) = 32

IsTimeout == client'.event = "Timeout" /\ client' # client

\* this step is SmtpClient::react for the Close or Error event of a
\* connection that was not made
IsRefused == client'.event = "Close" /\ client.conn = "Connecting" /\ client' # client

\* the write buffer is not empty and smaller than at the snapshot
Shrunk(c) == c.wsize # 0 /\ c.wbs > c.wsize

\* the client gives up: every Unknown recipient of its DSN is Delayed with
\* the status, the others are as they were, the owner is notified, the DSN
\* is released and the connection is closed
GivesUp(status) ==
    /\ \A d \in 1..Len(client.dsns) : \A i \in 1..Len(client.dsns[d]) :
           LET old == client.dsns[d][i]
               new == client'.dsns[d][i]
           IN  IF d = client.dsn /\ old.action = "Unknown"
               THEN new.action = "Delayed" /\ new.status = status
               ELSE new.action = old.action /\ new.status = old.status
    /\ client.dsn # 0 => client'.notified = 1
    /\ client'.dsn = 0
    /\ client'.conn = "Closing"

\* C33: at a Timeout event, if the write buffer is not empty and has
\* shrunk since the snapshot, the timeout is extended, the snapshot is
\* updated and no recipient changes; otherwise every Unknown recipient of
\* the DSN becomes Delayed 4.4.1, the owner is notified, the DSN is
\* released and the connection is closed.  A refused connection delays the
\* Unknown recipients with 4.4.1 likewise.
C33_TimeoutOrProgress ==
    [][/\ IsTimeout =>
              IF Shrunk(client)
              THEN /\ client'.extended = client.extended + 1
                   /\ client'.wbs = client.wsize
                   /\ client'.wbt = now
                   /\ client'.dsns = client.dsns
                   /\ client'.dsn = client.dsn
                   /\ client'.state = client.state
                   /\ client'.conn = "Connected"
                   /\ client'.notified = 0
              ELSE GivesUp(Status441)
       /\ IsRefused => GivesUp(Status441)]_vars

\* the body is being written when the timeout comes: the client goes on
\* waiting, with its DSN
C33_Witness ==
    /\ client.event = "Timeout"
    /\ client.extended = 1
    /\ client.state = "Body"
    /\ client.conn = "Connected"
    /\ client.dsn # 0
    /\ client.wsize = 1
    /\ client.wbs = 1
    /\ \E i \in 1..Len(client.dsns[client.dsn]) :
           client.dsns[client.dsn][i].action = "Unknown"

\* The connection does not stay unanswered for ever: one that is being
\* made is made or refused, and one that is made times out or is closed if
\* nothing else ends it.
SlowFairSpec ==
    /\ SlowSpec
    /\ WF_vars(ClientConnect \/ SlowClose)
    /\ WF_vars(SlowTimeout \/ SlowClose)

\* the client holds no DSN, no recipient of the DSNs it was given is
\* Unknown, and the owner was told when the client let go of the DSN
C36_Resolved ==
    /\ client.dsn = 0
    /\ \A d \in 1..Len(client.dsns) : \A i \in 1..Len(client.dsns[d]) :
           client.dsns[d][i].action # "Unknown"

\* C36: every DSN that send() has accepted is resolved in the end: the
\* owner is notified when the client lets go of the DSN, and the client
\* comes to hold no DSN, with no recipient Unknown.
C36_EveryDsnResolved ==
    /\ [][client.dsn # 0 /\ client'.dsn = 0 => client'.notified >= 1]_vars
    /\ (client.dsn # 0) ~> C36_Resolved


(***************************************************************************)
(* The SmtpClient and a smarthost that answers each command once, in the   *)
(* order of the commands.  await (of env) holds what the smarthost has     *)
(* still to answer: the banner, the commands and the body.                 *)
(***************************************************************************)
ReuseStep(c, await) ==
    /\ client' = Written(c)
    /\ env' = [env EXCEPT !.await = await \o c.wrote]
    /\ UNCHANGED <<imap, smtp, now, inShutdown, spool>>

\* the connection to the smarthost is made; the smarthost owes the banner
ReuseConnect ==
    /\ client.conn = "Connecting"
    /\ ReuseStep(ClientReact(client, "Connect", << >>), <<"banner">>)

\* the reply lines the smarthost may give to what it has received
Answers(to) ==
    CASE to = "data" -> {Reply354, Reply450}
      [] to \in {"mail", "rcpt"} -> {Reply250, Reply550}
      [] to = "body" -> {Reply250, Reply450}
      [] OTHER -> {Reply250}

\* the smarthost answers the oldest command it has not answered; a 354
\* reply to DATA is followed by the body
ReuseRead ==
    /\ client.conn = "Connected"
    /\ env.await # << >>
    /\ \E line \in Answers(Head(env.await)) :
           LET c == ClientReact(client, "Read", <<line>>)
           IN  ReuseStep(c, Tail(env.await)
                            \o IF client.state = "Data" /\ line = Reply354
                               THEN <<"body">> ELSE << >>)

\* the owner gives the client a DSN, as soon as the client is ready
ReuseGive ==
    /\ client.conn = "Connected"
    /\ ClientReady(client)
    /\ \E dsn \in DsnChoices :
           /\ Given(client) + Len(dsn) <= MaxGiven
           /\ ReuseStep(ClientSend([client EXCEPT !.event = "Send", !.lines = << >>,
                                                  !.wrote = << >>, !.notified = 0],
                                   dsn), env.await)

\* the smarthost closes the connection
ReuseClose ==
    /\ client.conn = "Connected"
    /\ ReuseStep([ClientReact(client, "Close", << >>) EXCEPT !.conn = "Closing"],
                 << >>)

ReuseNext ==
    \/ ReuseConnect
    \/ ReuseRead
    \/ ReuseGive
    \/ ReuseClose

ReuseSpec == Init /\ [][ReuseNext]_vars

\* what a client in state s is waiting for a reply to
Awaited(s) ==
    CASE s = "Connected" -> "banner"
      [] s = "Hello" -> "ehlo"
      [] s = "MailFrom" -> "mail"
      [] s = "RcptTo" -> "rcpt"
      [] s = "Data" -> "data"
      [] s = "Body" -> "body"
      [] s = "Rset" -> "rset"
      [] s = "Quit" -> "quit"
      [] OTHER -> ""

\* C37: every reply of the smarthost is taken in the client state of the
\* command that it answers, and no RCPT TO is sent while the smarthost has
\* not answered MAIL FROM.
C37_ReplyAttributed ==
    [][/\ IsRead => Awaited(client.state) = Head(env.await)
       /\ \A k \in 1..Len(client'.wrote) :
              client'.wrote[k] = "rcpt" /\ client' # client =>
                  \A j \in 1..Len(env'.await) : env'.await[j] # "mail"]_vars


(***************************************************************************)
(* The SmtpClient and a smarthost that does not announce                   *)
(* ENHANCEDSTATUSCODES and answers with any of the reply codes below.      *)
(***************************************************************************)
ReplyCodes == {250, 354, 421, 450, 451, 452, 455, 500, 501, 502, 503, 504,
               550, 551, 552, 553, 554, 555}

\* the reply line "<code> x"
ReplyLine(code) == Format(code) \o <<32, 120>>

\* a reply line of the smarthost arrives
StatusRead ==
    /\ client.conn = "Connected"
    /\ \E code \in ReplyCodes :
           ClientStep(ClientReact(client, "Read", <<ReplyLine(code)>>))

StatusNext ==
    \/ ClientConnect
    \/ SlowGive
    \/ StatusRead
    \/ ClientTimeout
    \/ ClientClose

StatusSpec == Init /\ [][StatusNext]_vars

\* C40: a recipient that the client has made Failed has a status of class
\* 5, and one that it has made Delayed has a status of class 4, when the
\* smarthost does not announce ENHANCEDSTATUSCODES.
C40_ActionMatchesStatus ==
    \A d \in 1..Len(client.dsns) : \A i \in 1..Len(client.dsns[d]) :
        LET r == client.dsns[d][i]
        IN  /\ r.first = "Unknown" /\ r.action = "Failed" =>
                   Len(r.status) = 5 /\ r.status[1] = 53
            /\ r.first = "Unknown" /\ r.action = "Delayed" =>
                   Len(r.status) = 5 /\ r.status[1] = 52


(***************************************************************************)
(* The end of an IMAP session: LOGOUT, and the events that may follow it.  *)
(***************************************************************************)
\* the client sends LOGOUT or another command, or LOGOUT with a command
\* after it
LogoutSend ==
    Send(Single({NoopBody, LogoutBody, SelectBody, UidFetchBody})
         \cup {<<LogoutBody, SelectBody>>, <<LogoutBody, NoopBody>>,
               <<UidFetchBody, LogoutBody>>})

\* the client has been silent for too long: the Timeout event
Timeout ==
    /\ imap.connState = "Connected"
    /\ imap' = ReactTimeout(imap)
    /\ UNCHANGED <<smtp, now, inShutdown, env, client, spool>>

\* the Shutdown event reaches a connection that the event loop still has
LiveShutdown ==
    /\ imap.connState # "Invalid"
    /\ Shutdown

LogoutNext ==
    \/ SendOpening
    \/ LogoutSend
    \/ QueryDone
    \/ ImplicitFetch
    \/ Timeout
    \/ Close
    \/ BeginShutdown
    \/ LiveShutdown

LogoutSpec == Init /\ [][LogoutNext]_vars

LeaderOf(verCmd, fam, len) ==
    V2sig \o <<verCmd, fam, len \div 256, len % 256>> \o [k \in 1..len |-> 1]

\* "a logout", "a noop", "abcdefghi logout", and leaders: LOCAL without addresses,
\* PROXY for TCPv4, TCPv6 and AF_UNIX, and one that declares one octet more
\* than the largest of the three
FirstInputs ==
    {<<97, 32>> \o LogoutBody \o <<13, 10>>,
     <<97, 32>> \o NoopBody \o <<13, 10>>,
     <<97, 98, 99, 100, 101, 102, 103, 104, 105, 32>> \o LogoutBody \o <<13, 10>>,
     LeaderOf(32, 0, 0), LeaderOf(32, 0, 12), LeaderOf(33, 17, 12), LeaderOf(33, 33, 36),
     LeaderOf(33, 49, 216), LeaderOf(33, 49, 217)}

\* where the first input is split into two reads (0: it is not)
Splits == {0, 4, 8, 12, 14, 16, 20, 28}

\* the client sends its first input, or the first part of it
FirstInput ==
    \E inp \in FirstInputs : \E k \in Splits : \E junk \in {0, 255} :
        /\ env.reads = 0
        /\ k < Len(inp)
        /\ Read(IF k = 0 THEN inp ELSE SubSeq(inp, 1, k), junk)
        /\ env' = [env EXCEPT !.reads = 1, !.whole = inp,
                              !.cur = IF k = 0 THEN << >>
                                      ELSE <<SubSeq(inp, k + 1, Len(inp))>>]

\* the rest of the first input arrives
RestOfInput ==
    \E junk \in {0, 255} :
        /\ env.cur # << >>
        /\ Read(Head(env.cur), junk)
        /\ env' = [env EXCEPT !.reads = @ + 1, !.cur = Tail(@)]

\* the client sends a command line after its first input
NextInput ==
    /\ env.whole # << >>
    /\ env.cur = << >>
    /\ env.tags = 0
    /\ \E body \in {NoopBody, LogoutBody, BogusBody} : Read(ClientLine(2, body), 0)
    /\ env' = [env EXCEPT !.reads = @ + 1, !.tags = 1]

FirstNext ==
    \/ FirstInput
    \/ RestOfInput
    \/ NextInput

FirstSpec == Init /\ [][FirstNext]_vars

\* C39: when the whole first input has arrived, and nothing after it, a
\* command line has been made a command, and a PROXY v2 leader has been
\* taken off the input: the server is not waiting for more.
C39_FirstInputTaken ==
    env.whole # << >> /\ env.cur = << >> /\ env.tags = 0 =>
        IF Len(env.whole) >= 16 /\ SubSeq(env.whole, 1, 12) = V2sig
        THEN ~imap.maybeProxy /\ imap.leaders = 1 /\ imap.rbuf = << >>
        ELSE ~imap.maybeProxy /\ Len(imap.lines) = 1 /\ imap.rbuf = << >>

(***************************************************************************)
(* FETCH: the lists of one Fetch command.  A message is named by its UID.  *)
(* d->requested holds the messages not yet complete, d->available those    *)
(* picked up and not yet sent; out is the FETCH responses made, in order.  *)
(* A command for many messages is modelled by the last MaxUid of them: the *)
(* messages before them are counted (early), they are complete in the      *)
(* cache and stay in the session.                                          *)
(***************************************************************************)
MaxUid == 3

Uids == 1..MaxUid

\* Session::msn( uid ): the position of the message in the session, 0 if
\* the session does not hold it
Msn(f, u) ==
    IF u \in f.messages THEN Cardinality({v \in f.messages : v <= u}) ELSE 0

\* Command::shrink( &set ): what of the set the session knows
Shrink(f, set) == set \cap f.messages

\* the FETCH response for message m, with the data the message held when the
\* response was made
MakeFetchResponse(f, m, u, msn) ==
    [uid |-> u, msn |-> msn, had |-> f.has[m]]

\* a faulty variant of Pickup that takes every requested message
RECURSIVE Pickup_unchecked(_)
Pickup_unchecked(f) ==
    IF f.requested = << >> THEN [f EXCEPT !.earlyAvailable = @ + f.earlyRequested,
                                          !.earlyRequested = 0]
    ELSE Pickup_unchecked([f EXCEPT !.available = Append(@, Head(f.requested)),
                                    !.requested = Tail(@)])

\* Fetch::pickup(): "retrieves completed messages and builds ImapFetchResponse
\* objects"
RECURSIVE Pickup(_)
Pickup(f) ==
    IF f.earlyRequested > 0
    THEN Pickup([f EXCEPT !.earlyAvailable = @ + f.earlyRequested,
                          !.earlyRequested = 0])
    ELSE IF f.requested = << >> THEN f
    ELSE LET m == Head(f.requested)
             msn == Msn(f, m)
             ok == /\ ~(f.needsAddresses /\ "Addresses" \notin f.has[m])
                   /\ ~(f.needsHeader /\ "Headers" \notin f.has[m])
                   /\ ~(f.needsPartNumbers /\ "BytesAndLines" \notin f.has[m])
                   /\ ~(f.needsBody /\ "Bodies" \notin f.has[m])
                   /\ ~(f.flags /\ "Flags" \notin f.has[m])
                   /\ ~((f.rfc822size \/ f.internaldate \/ f.modseq)
                        /\ "Trivia" \notin f.has[m])
                   /\ ~(f.annotation /\ "Annotations" \notin f.has[m])
                   /\ m # 0
                   /\ msn # 0
         IN  IF ok
             THEN Pickup([f EXCEPT !.available = Append(@, m),
                                   !.requested = Tail(@)])
             ELSE f

\* "while ( ... !d->available.isEmpty() ) { Message * m = d->available.shift();
\* respond( makeFetchResponse( m, u, s->msn( u ) ) ); }", at most n times
RECURSIVE EmitAvailable(_, _)
EmitAvailable(f, n) ==
    IF n = 0 THEN f
    ELSE IF f.earlyAvailable > 0
    THEN EmitAvailable([f EXCEPT !.earlyAvailable = @ - 1], n - 1)
    ELSE IF f.available = << >> THEN f
    ELSE LET m == Head(f.available)
         IN  EmitAvailable(
                 [f EXCEPT !.available = Tail(@),
                           !.out = Append(@, MakeFetchResponse(f, m, m, Msn(f, m)))],
                 n - 1)

\* the UIDs of a set, least first: "uint uid = d->set.value( 1 );
\* d->set.remove( uid );"
RECURSIVE Values(_)
Values(set) ==
    IF set = {} THEN << >>
    ELSE LET uid == CHOOSE u \in set : \A v \in set : u <= v
         IN  <<uid>> \o Values(set \ {uid})

\* the data the command needs of each message, by Fetcher kind
Needs(f) ==
    (IF f.needsAddresses THEN {"Addresses"} ELSE {}) \cup
    (IF f.needsHeader THEN {"Headers"} ELSE {}) \cup
    (IF f.needsBody THEN {"Bodies"} ELSE {}) \cup
    (IF f.needsPartNumbers THEN {"BytesAndLines"} ELSE {}) \cup
    (IF f.flags THEN {"Flags"} ELSE {}) \cup
    (IF f.rfc822size \/ f.internaldate \/ f.modseq THEN {"Trivia"} ELSE {}) \cup
    (IF f.annotation THEN {"Annotations"} ELSE {})

\* Fetch::sendFetchQueries(): "issues queries to resolve any questions this
\* FETCH needs to answer"; a cached message with an old modseq loses its
\* flags and annotations
SendFetchQueries(f) ==
    LET has == [u \in DOMAIN f.has |->
                   IF u \in f.set /\ u \in f.stale
                   THEN f.has[u] \ {"Flags", "Annotations"}
                   ELSE f.has[u]]
    IN  [f EXCEPT !.has = has,
                  !.requested = @ \o Values(f.set),
                  !.earlyRequested = f.early,
                  !.set = {},
                  !.fetching = {k \in Needs(f) : \E u \in f.set : k \notin has[u]},
                  !.timer = TRUE]

\* Fetch::execute(), d->state 0: the CHANGEDSINCE query
ChangedSince(f) ==
    IF f.state # 0 THEN f
    ELSE IF ~f.changedSince THEN [f EXCEPT !.state = 1]
    ELSE IF f.those = "none" THEN [f EXCEPT !.those = "sent"]
    ELSE IF f.those = "sent" THEN f
    ELSE [f EXCEPT !.set = f.rows, !.state = 1]

\* d->state 1: RFC 2180 section 4.1.2 and shrink()
ShrinkSet(f) ==
    IF f.state # 1 THEN f
    ELSE LET set == Shrink(f, f.set)
         IN  [f EXCEPT !.expunged = IF f.group = 2 THEN f.sexpunged \cap f.set
                                    ELSE @,
                       !.set = set,
                       !.state = IF set = {} THEN 5 ELSE 2]

\* d->state 2: the implicit STORE of \Seen, which the command waits for
ImplicitStore(f) ==
    IF f.state # 2 THEN f
    ELSE IF f.peek THEN [f EXCEPT !.state = 3]
    ELSE IF f.store = "none" THEN [f EXCEPT !.store = "Executing"]
    ELSE IF f.store = "Executing" THEN f
    ELSE [f EXCEPT !.state = 3]

\* the end of Fetch::execute(): pickup(), and when nothing is requested any
\* more, commit, all of d->available, the NO for expunged UIDs and finish()
Completion(f) ==
    LET p == Pickup(f)
    IN  IF p.requested # << >> THEN p
        ELSE LET e == EmitAvailable(
                          [p EXCEPT !.committed = IF f.changedSince THEN @ + 1
                                                  ELSE @],
                          p.earlyAvailable + Len(p.available))
             IN  [e EXCEPT !.available = << >>,
                           !.error = f.expunged # {},
                           !.cmd = "Finished"]

\* Fetch::execute()
FetchRun(f0) ==
    IF f0.cmd # "Executing" THEN f0
    ELSE LET f == [f0 EXCEPT !.peek = @ \/ f0.readOnly]
             a == ChangedSince(f)
             b == ShrinkSet(a)
             c == ImplicitStore(b)
             d == IF c.state = 3 THEN SendFetchQueries([c EXCEPT !.state = 4])
                  ELSE c
         IN  IF d.state < 4 THEN d ELSE Completion(d)

\* Fetch::trickle(): "sends one or a few responses to the client per second"
Trickle(f) ==
    IF f.cmd \in {"Finished", "Retired"} THEN [f EXCEPT !.timer = FALSE]
    ELSE LET p == Pickup(f)
             r == (p.earlyAvailable + Len(p.available)) \div 90
             rate == IF r > p.responseRate THEN r
                     ELSE IF r < 2 /\ p.responseRate > 1 THEN 1
                     ELSE p.responseRate
         IN  EmitAvailable([p EXCEPT !.responseRate = rate], rate)

\* what Fetch::parse() sets for some attribute lists: FLAGS, the macro FAST,
\* ENVELOPE, BODYSTRUCTURE, RFC822 and ANNOTATION
FetchForms == {"flags", "fast", "envelope", "bodystructure", "rfc822",
               "annotation"}

FetchParse(f, form) ==
    CASE form = "flags" -> [f EXCEPT !.flags = TRUE]
      [] form = "fast" -> [f EXCEPT !.flags = TRUE, !.internaldate = TRUE,
                                    !.rfc822size = TRUE]
      [] form = "envelope" -> [f EXCEPT !.needsHeader = TRUE,
                                        !.needsAddresses = TRUE]
      [] form = "bodystructure" -> [f EXCEPT !.needsHeader = TRUE,
                                             !.needsAddresses = TRUE,
                                             !.needsPartNumbers = TRUE]
      [] form = "rfc822" -> [f EXCEPT !.peek = FALSE,
                                      !.needsAddresses = TRUE,
                                      !.needsHeader = TRUE,
                                      !.needsBody = TRUE]
      [] form = "annotation" -> [f EXCEPT !.annotation = TRUE]

AllKinds == {"Addresses", "Headers", "Bodies", "BytesAndLines", "Flags",
             "Trivia", "Annotations"}

\* the number of earlier messages of the command
Early == {0, 180}

\* a FETCH or UID FETCH is parsed and made Executing, in a session that holds
\* all messages but gone; the cache holds the messages of cached, with an
\* old modseq if old
FetchArrives ==
    \E form \in FetchForms : \E u \in BOOLEAN :
    \E set \in {Uids, Uids \ {1}, {MaxUid}} : \E gone \in {{}, {2}} :
    \E cached \in {{}, {2}, {MaxUid}} : \E old \in BOOLEAN :
    \E ro \in BOOLEAN : \E cs \in BOOLEAN : \E early \in Early :
        /\ imap.fetch.cmd = "Unparsed"
        /\ old => cached # {}
        /\ ro => form = "rfc822"
        /\ cs => form = "flags"
        /\ early > 0 => /\ form = "flags" /\ set = Uids /\ gone = {}
                        /\ cached \in {{}, {MaxUid}} /\ ~old /\ ~cs
        /\ imap' = [imap EXCEPT !.fetch =
               [FetchParse(imap.fetch, form) EXCEPT
                   !.uid = u, !.group = IF u THEN 1 ELSE 2,
                   !.set = set, !.wanted = set, !.changedSince = cs,
                   !.messages = Uids \ gone,
                   !.readOnly = ro,
                   !.has = [v \in Uids |-> IF v \in cached THEN AllKinds
                                           ELSE {}],
                   !.stale = IF old THEN cached ELSE {},
                   !.early = early,
                   !.cmd = "Executing"]]
        /\ UNCHANGED <<smtp, now, inShutdown, env, client, spool>>

\* the command is run: by IMAP::runCommands, or by a Query, the Fetcher or
\* the Store it waits for
FetchRuns ==
    /\ imap.fetch.cmd = "Executing"
    /\ imap' = [imap EXCEPT !.fetch = FetchRun(@)]
    /\ UNCHANGED <<smtp, now, inShutdown, env, client, spool>>

\* the CHANGEDSINCE query is answered with some of the set
ThoseDone ==
    \E rows \in SUBSET imap.fetch.set :
        /\ imap.fetch.those = "sent"
        /\ imap' = [imap EXCEPT !.fetch.those = "done",
                                !.fetch.rows = rows,
                                !.fetch.wanted = rows]
        /\ UNCHANGED <<smtp, now, inShutdown, env, client, spool>>

\* the implicit STORE finishes
StoreDone ==
    /\ imap.fetch.store = "Executing"
    /\ imap' = [imap EXCEPT !.fetch.store = "Finished"]
    /\ UNCHANGED <<smtp, now, inShutdown, env, client, spool>>

\* the Fetcher gives message u its data of kind k; the rows of one kind
\* come in the order of the UIDs
FetcherRow ==
    \E u \in Uids : \E k \in imap.fetch.fetching :
        /\ imap.fetch.cmd = "Executing"
        /\ k \notin imap.fetch.has[u]
        /\ \E i \in DOMAIN imap.fetch.requested :
               /\ imap.fetch.requested[i] = u
               /\ \A j \in 1..(i - 1) : k \in imap.fetch.has[imap.fetch.requested[j]]
        /\ imap' = [imap EXCEPT !.fetch.has[u] = @ \cup {k}]
        /\ UNCHANGED <<smtp, now, inShutdown, env, client, spool>>

\* the ResponseTrickler's timer fires
Trickles ==
    /\ imap.fetch.timer
    /\ imap' = [imap EXCEPT !.fetch = Trickle(@)]
    /\ UNCHANGED <<smtp, now, inShutdown, env, client, spool>>

\* another client expunges message u: the session knows, the client does not
SessionExpunged ==
    \E u \in {1} :
        /\ imap.fetch.cmd # "Unparsed"
        /\ u \in imap.fetch.messages
        /\ imap.fetch.sexpunged = {}
        /\ Cardinality(imap.fetch.messages) = MaxUid
        /\ imap' = [imap EXCEPT !.fetch.sexpunged = {u}]
        /\ UNCHANGED <<smtp, now, inShutdown, env, client, spool>>

\* the EXPUNGE for u is sent, and the later messages change their MSN; this
\* waits while a command is Executing (IMAP::emitResponses)
ExpungeSent ==
    \E u \in imap.fetch.sexpunged :
        /\ imap.fetch.cmd = "Finished"
        /\ imap' = [imap EXCEPT !.fetch.sexpunged = @ \ {u},
                                !.fetch.messages = @ \ {u}]
        /\ UNCHANGED <<smtp, now, inShutdown, env, client, spool>>

FetchNext ==
    \/ FetchArrives
    \/ FetchRuns
    \/ ThoseDone
    \/ StoreDone
    \/ FetcherRow
    \/ Trickles
    \/ SessionExpunged
    \/ ExpungeSent

FetchSpec == Init /\ [][FetchNext]_vars

\* the UIDs of the FETCH responses made, in the order of the responses
OutUids(f) == [i \in DOMAIN f.out |-> f.out[i].uid]

IsAscending(q) == \A i, j \in DOMAIN q : i < j => q[i] < q[j]

\* C34: every FETCH response made is for a message that held all the data the
\* command needs and had a UID and an MSN other than 0; the responses made
\* and the messages still to come are in the order of the request, and none
\* is made before the earlier messages are sent; and a Finished command has
\* no requested message left and has answered for every message it was asked
\* for that the session holds.
C34_FetchInOrder ==
    LET f == imap.fetch
    IN  /\ \A i \in DOMAIN f.out :
               /\ Needs(f) \subseteq f.out[i].had
               /\ f.out[i].uid # 0
               /\ f.out[i].msn # 0
        /\ IsAscending(OutUids(f) \o f.available \o f.requested)
        /\ f.out # << >> => f.earlyRequested = 0 /\ f.earlyAvailable = 0
        /\ f.cmd = "Finished" =>
               /\ f.requested = << >>
               /\ f.available = << >>
               /\ f.earlyRequested = 0
               /\ \A u \in f.wanted \cap f.messages :
                      \E i \in DOMAIN f.out : f.out[i].uid = u

\* a response has been made, the first requested message lacks data and a
\* later one is complete: it waits
C34_Witness ==
    LET f == imap.fetch
    IN  /\ f.cmd = "Executing"
        /\ f.out # << >>
        /\ Len(f.requested) >= 2
        /\ ~(Needs(f) \subseteq f.has[f.requested[1]])
        /\ \E k \in 2..Len(f.requested) :
               /\ Needs(f) \subseteq f.has[f.requested[k]]
               /\ Msn(f, f.requested[k]) # 0
====
